----------------------------- MODULE EdgeProofs -----------------------------
(***************************************************************************)
(* Proofs about edge nodes: what their sessions accept is never lost, and  *)
(* is projected in order in every stream where no loop was overtaken; and  *)
(* a configuration that counts as applied is what the node runs.           *)
(***************************************************************************)
EXTENDS EdgeStreams, EdgeConfig, FiniteSetTheorems, WellFoundedInduction, TLAPS

USE EdgeStreamConstants, EdgeConfigConstants

----------------------------------------------------------------------------
(* What one command returns of a set of entries                            *)

LEMMA LeastNat ==
  ASSUME NEW S \in SUBSET Nat, S # {}
  PROVE  \E x \in S : \A y \in S : x <= y
<1>1. IsWellFoundedOn(OpToRel(<, Nat), Nat)
  BY NatLessThanWellFounded
<1>2. PICK x \in S : \A y \in S : ~(<<y, x>> \in OpToRel(<, Nat))
  BY <1>1, WFMin
<1>3. \A y \in S : ~(y < x)
  BY <1>2 DEF OpToRel
<1> QED BY <1>3

LEMMA BelowIsFinite ==
  ASSUME NEW S \in SUBSET Entry, NEW T \in SUBSET S, NEW e
  PROVE  /\ IsFiniteSet({f \in S : f < e}) /\ {f \in T : f < e} \subseteq {f \in S : f < e}
         /\ Cardinality({f \in T : f < e}) <= Cardinality({f \in S : f < e})
         /\ Cardinality({f \in T : f < e}) \in Nat /\ Cardinality({f \in S : f < e}) \in Nat
<1>1. IsFiniteSet(Entry)
  BY FS_Interval DEF Entry
<1>2. IsFiniteSet({f \in S : f < e})
  BY <1>1, FS_Subset
<1>3. {f \in T : f < e} \subseteq {f \in S : f < e}
  OBVIOUS
<1>4. IsFiniteSet({f \in T : f < e}) /\ Cardinality({f \in T : f < e}) <= Cardinality({f \in S : f < e})
  BY <1>2, <1>3, FS_Subset
<1> QED BY <1>2, <1>3, <1>4, FS_CardinalityType

\* The first entries of a set are some of them, none is passed over, and a set is
\* read to its end by and by.
LEMMA FirstOnes ==
  ASSUME NEW S \in SUBSET Entry
  PROVE  /\ First(S) \subseteq S
         /\ \A e \in First(S), f \in S : f < e => f \in First(S)
         /\ First(S) = {} => S = {}
         /\ First(First(S)) = First(S)
<1>1. First(S) \subseteq S
  BY DEF First
<1>2. ASSUME NEW e \in First(S), NEW f \in S, f < e
      PROVE  f \in First(S)
  <2>1. S \subseteq Int /\ e \in S
    BY <1>1 DEF Entry
  <2>2. {g \in S : g < f} \subseteq {g \in S : g < e}
    <3> SUFFICES ASSUME NEW g \in S, g < f PROVE g < e
      OBVIOUS
    <3>1. e \in Int /\ f \in Int /\ g \in Int /\ f < e
      BY <1>2, <2>1
    <3> QED BY <3>1
  <2>3. /\ Cardinality({g \in S : g < f}) <= Cardinality({g \in S : g < e})
        /\ Cardinality({g \in S : g < f}) \in Nat /\ Cardinality({g \in S : g < e}) \in Nat
    <3>1. IsFiniteSet({g \in S : g < e}) /\ IsFiniteSet({g \in S : g < f})
      BY BelowIsFinite
    <3>2. Cardinality({g \in S : g < f}) <= Cardinality({g \in S : g < e})
      BY <2>2, <3>1, FS_Subset
    <3> QED BY <3>1, <3>2, FS_CardinalityType
  <2>4. Cardinality({g \in S : g < e}) < BatchSize
    BY DEF First
  <2>5. Cardinality({g \in S : g < f}) < BatchSize
    BY <2>3, <2>4
  <2> QED BY <2>5 DEF First
<1>3. ASSUME S # {}
      PROVE  First(S) # {}
  <2>1. PICK x \in S : \A y \in S : x <= y
    <3>1. S \in SUBSET Nat
      BY DEF Entry
    <3> QED BY <1>3, <3>1, LeastNat
  <2>2. {f \in S : f < x} = {}
    <3>1. S \subseteq Int
      BY DEF Entry
    <3> SUFFICES ASSUME NEW f \in S PROVE ~(f < x)
      OBVIOUS
    <3>2. f \in Int /\ x \in Int /\ x <= f
      BY <2>1, <3>1
    <3> QED BY <3>2
  <2>3. Cardinality({f \in S : f < x}) = 0
    BY <2>2, FS_EmptySet
  <2>4. 0 < BatchSize
    OBVIOUS
  <2>5. x \in First(S)
    BY <2>3, <2>4 DEF First
  <2> QED BY <2>5
<1>4. First(First(S)) = First(S)
  <2>1. ASSUME NEW e \in First(S)
        PROVE  e \in First(First(S))
    <3>1. /\ Cardinality({f \in First(S) : f < e}) <= Cardinality({f \in S : f < e})
          /\ Cardinality({f \in First(S) : f < e}) \in Nat /\ Cardinality({f \in S : f < e}) \in Nat
      BY <1>1, BelowIsFinite
    <3>2. Cardinality({f \in S : f < e}) < BatchSize
      BY DEF First
    <3>3. Cardinality({f \in First(S) : f < e}) < BatchSize
      BY <3>1, <3>2
    <3> QED BY <3>3 DEF First
  <2>2. First(First(S)) \subseteq First(S)
    BY DEF First
  <2> QED BY <2>1, <2>2
<1> QED BY <1>1, <1>2, <1>3, <1>4

LEMMA FirstOfPart ==
  ASSUME NEW S \in SUBSET Entry, NEW T \in SUBSET S, First(S) = S
  PROVE  First(T) = T
<1>1. ASSUME NEW e \in T
      PROVE  e \in First(T)
  <2>1. /\ Cardinality({f \in T : f < e}) <= Cardinality({f \in S : f < e})
        /\ Cardinality({f \in T : f < e}) \in Nat /\ Cardinality({f \in S : f < e}) \in Nat
    BY BelowIsFinite
  <2>2. e \in First(S)
    OBVIOUS
  <2>3. Cardinality({f \in S : f < e}) < BatchSize
    BY <2>2 DEF First
  <2>4. Cardinality({f \in T : f < e}) < BatchSize
    BY <2>1, <2>3
  <2> QED BY <2>4 DEF First
<1> QED BY <1>1 DEF First

Prefix(T, S) == \A e \in S, f \in T : e < f => e \in T

LEMMA FirstOfPrefix ==
  ASSUME NEW S \in SUBSET Entry, NEW T \in SUBSET S, First(T) = T, Prefix(T, S)
  PROVE  T \subseteq First(S)
<1> SUFFICES ASSUME NEW e \in T PROVE e \in First(S)
  OBVIOUS
<1>1. {f \in S : f < e} = {f \in T : f < e}
  BY DEF Prefix
<1>2. e \in First(T)
  OBVIOUS
<1>3. Cardinality({f \in T : f < e}) < BatchSize
  BY <1>2 DEF First
<1>4. Cardinality({f \in S : f < e}) < BatchSize
  BY <1>1, <1>3
<1> QED BY <1>4 DEF First

----------------------------------------------------------------------------
(* The streams of what nodes send: the invariant                           *)

Stage == {"start", "look", "adopt", "work", "project", "acknowledge", "idle"}
LoopType == [at : Stage, on : Incarnation \cup {NoWorker}, batch : [Incarnation -> SUBSET Entry]]

\* A loop has a batch while it works on it; what it acknowledges is projected.
LoopInv ==
  /\ loop \in [Incarnation -> LoopType]
  /\ \A w \in Incarnation :
       /\ loop[w].at \in {"start", "look", "adopt", "idle"} => loop[w].batch = NoEntries
       /\ loop[w].at \in {"adopt", "project", "acknowledge"} => loop[w].on \in Incarnation
       /\ loop[w].at = "acknowledge" => loop[w].batch[loop[w].on] \subseteq projected

\* Messages are numbered as they are accepted, each is in one stream, and what
\* is pending, for one worker, comes before what nobody has read.
NumberInv ==
  /\ \E n \in 0 .. MaxAccepts : AcceptedBy(Incarnation) = 1 .. n
  /\ projected \subseteq AcceptedBy(Incarnation)
  /\ \A i, j \in Incarnation : i # j => accepted[i] \cap accepted[j] = {}
  /\ \A i \in Incarnation : queue[i] \subseteq accepted[i]
  /\ \A w, i \in Incarnation : loop[w].batch[i] \subseteq accepted[i]
  /\ \A i \in Incarnation : \A e \in Pending(i), f \in Unread(i) : e < f
  /\ \A i, v, w \in Incarnation : v # w => taken[i][v] \cap taken[i][w] = {}

\* Nobody else reads the stream of a worker that has its lease.
OwnerInv ==
  \A i \in Incarnation :
    /\ state[i] = "new" => /\ i \notin here /\ i \in recovering
                           /\ loop[i].batch = NoEntries
    /\ state[i] = "new" \/ lease[i] = i =>
         \A v \in Incarnation \ {i} : i \notin known[v] /\ taken[i][v] = {}

\* A loop that is not to read pending entries first has those it has not
\* finished in its batch.
ReadInv ==
  \A w \in Incarnation : \A i \in Streams(w) \ overtaken :
    state[w] = "up" /\ w \notin recovering => taken[i][w] \subseteq loop[w].batch[i]

\* One reading returns all that is pending for one worker, and two workers have
\* pending entries of a stream only when there are no others.
SoleInv ==
  \A i \in Incarnation \ overtaken :
    /\ \A w \in Incarnation : First(taken[i][w]) = taken[i][w]
    /\ Unread(i) # {} =>
         \A v, w \in Incarnation : taken[i][v] = {} \/ taken[i][w] = {} \/ v = w

\* Once it has swept a stream, a worker that has its lease has the first of the
\* pending entries, and all of them as long as there are unread ones.
HolderInv ==
  \A w \in Incarnation : \A i \in known[w] \ overtaken :
    lease[i] = w /\ w \notin due =>
      Prefix(taken[i][w], Pending(i)) /\ (Unread(i) = {} \/ OnlyTakenBy(i, w))

\* Nothing that comes before an entry of S is left but what is in S.
Closed(S, i) ==
  \A e \in accepted[i], f \in S : e < f => e \in projected \/ e \in S

\* A batch is closed when the lease is checked, and stays so when it is lost.
ClosedInv ==
  \A w \in Incarnation : \A i \in Incarnation \ overtaken :
    lease[i] = w \/ (loop[w].at = "project" /\ loop[w].on = i) =>
      Closed(loop[w].batch[i], i)

EdgeStreamInv ==
  /\ EdgeStreamTypeOK /\ NothingLost /\ InOrder
  /\ LoopInv /\ NumberInv /\ OwnerInv /\ ReadInv /\ SoleInv /\ HolderInv /\ ClosedInv

LEMMA LoopTypes ==
  /\ NoEntries \in [Incarnation -> SUBSET Entry] /\ \A i \in Incarnation : NoEntries[i] = {}
  /\ \A s \in Stage, i \in Incarnation \cup {NoWorker}, b \in [Incarnation -> SUBSET Entry] :
       /\ Loop(s, i, b) \in LoopType
       /\ Loop(s, i, b).at = s /\ Loop(s, i, b).on = i /\ Loop(s, i, b).batch = b
  /\ \A s \in Stage : /\ LoopAt(s) \in LoopType /\ LoopAt(s).at = s
                      /\ LoopAt(s).on = NoWorker /\ LoopAt(s).batch = NoEntries
<1>1. NoEntries \in [Incarnation -> SUBSET Entry] /\ \A i \in Incarnation : NoEntries[i] = {}
  BY DEF NoEntries
<1>2. \A s \in Stage, i \in Incarnation \cup {NoWorker}, b \in [Incarnation -> SUBSET Entry] :
        /\ Loop(s, i, b) \in LoopType
        /\ Loop(s, i, b).at = s /\ Loop(s, i, b).on = i /\ Loop(s, i, b).batch = b
  BY DEF Loop, LoopType
<1> QED BY <1>1, <1>2 DEF LoopAt

LEMMA EdgeStreamInit == ASSUME InitEdgeStreams PROVE EdgeStreamInv
<1> USE DEF InitEdgeStreams
<1>1. /\ \A i \in Incarnation : queue[i] = {} /\ accepted[i] = {} /\ known[i] = {} /\ lease[i] = NoWorker
      /\ \A i, w \in Incarnation : taken[i][w] = {}
      /\ {known, held, gone} \subseteq [Incarnation -> SUBSET Incarnation]
  BY DEF NoEntries
<1>2. LoopInv /\ \A w \in Incarnation : loop[w].batch = NoEntries /\ loop[w].at = "start"
  BY LoopTypes DEF LoopInv, Stage
<1>3. EdgeStreamTypeOK
  BY <1>1 DEF EdgeStreamTypeOK, NoEntries
<1>4. NothingLost /\ InOrder
  BY <1>1 DEF NothingLost, InOrder
<1>5. \A i \in Incarnation : Pending(i) = {} /\ Unread(i) = {} /\ Streams(i) = {i}
  BY <1>1 DEF Pending, Unread, Streams
<1>6. NumberInv
  <2>1. AcceptedBy(Incarnation) = 1 .. 0
    BY <1>1 DEF AcceptedBy
  <2>2. \A w, i \in Incarnation : loop[w].batch[i] = {}
    BY <1>2, LoopTypes
  <2> QED BY <1>1, <1>5, <2>1, <2>2 DEF NumberInv
<1>7. OwnerInv
  BY <1>1, <1>2 DEF OwnerInv
<1>8. ReadInv /\ SoleInv /\ HolderInv
  BY <1>1, <1>5, FirstOnes DEF ReadInv, SoleInv, HolderInv
<1>9. ClosedInv
  BY <1>1, <1>2, LoopTypes DEF ClosedInv, Closed
<1> QED BY <1>2, <1>3, <1>4, <1>6, <1>7, <1>8, <1>9 DEF EdgeStreamInv

----------------------------------------------------------------------------
(* Steps that leave the entries alone                                      *)

\* What a step may do to the loops, leases and streams of the workers.
Quiet ==
  /\ UNCHANGED <<queue, taken, accepted, projected>> /\ overtaken \subseteq overtaken'
  /\ loop' \in [Incarnation -> LoopType]
  /\ \A w \in Incarnation : loop'[w] = loop[w] \/
       /\ loop'[w].batch = NoEntries
       /\ \/ loop'[w].at \in {"start", "look", "idle"}
          \/ loop'[w].at = "adopt" /\ loop'[w].on \in Incarnation
QuietLeases ==
  \A i \in Incarnation :
    /\ \A w \in Incarnation : lease'[i] = w => lease[i] = w \/ loop'[w].batch = NoEntries
    /\ lease'[i] = i => lease[i] = i \/ state[i] = "new"
    /\ \A w \in Incarnation \ {i} :
         i \in known'[w] => i \in known[w] \/ (lease'[i] = w /\ i \in here)
    /\ state'[i] = "new" => /\ state[i] = "new" /\ i \notin here' /\ i \in recovering'
                            /\ loop'[i].batch = NoEntries
QuietReads ==
  \A w \in Incarnation : \A i \in Incarnation \ overtaken' :
    /\ i \in known'[w] /\ lease'[i] = w /\ w \notin due' =>
         (i \in known[w] /\ lease[i] = w /\ w \notin due) \/ OnlyTakenBy(i, w)
    /\ i \in Streams(w)' /\ state'[w] = "up" /\ w \notin recovering' =>
         \/ taken[i][w] = {}
         \/ /\ i \in Streams(w) /\ state[w] = "up" /\ w \notin recovering
            /\ loop'[w].batch = loop[w].batch

LEMMA QuietStep ==
  ASSUME EdgeStreamInv, Quiet, QuietLeases, QuietReads, EdgeStreamTypeOK'
  PROVE  EdgeStreamInv'
<1>1. /\ UNCHANGED <<queue, taken, accepted, projected>> /\ overtaken \subseteq overtaken'
      /\ loop' \in [Incarnation -> LoopType]
      /\ \A w \in Incarnation : loop'[w] = loop[w] \/
           /\ loop'[w].batch = NoEntries
           /\ \/ loop'[w].at \in {"start", "look", "idle"}
              \/ loop'[w].at = "adopt" /\ loop'[w].on \in Incarnation
  BY DEF Quiet
<1>2. /\ \A i \in Incarnation : Pending(i)' = Pending(i) /\ Unread(i)' = Unread(i)
      /\ \A i, w \in Incarnation : OnlyTakenBy(i, w)' <=> OnlyTakenBy(i, w)
      /\ AcceptedBy(Incarnation)' = AcceptedBy(Incarnation)
      /\ \A S : First(S)' = First(S)
  BY <1>1 DEF Pending, Unread, OnlyTakenBy, AcceptedBy, First
<1>3. NothingLost' /\ InOrder'
  BY <1>1 DEF EdgeStreamInv, NothingLost, InOrder
<1>4. LoopInv'
  <2>1. ASSUME NEW w \in Incarnation
        PROVE  /\ loop'[w].at \in {"start", "look", "adopt", "idle"} => loop'[w].batch = NoEntries
               /\ loop'[w].at \in {"adopt", "project", "acknowledge"} => loop'[w].on \in Incarnation
               /\ loop'[w].at = "acknowledge" => loop'[w].batch[loop'[w].on] \subseteq projected'
    <3>1. CASE loop'[w] = loop[w]
      BY <3>1, <1>1 DEF EdgeStreamInv, LoopInv
    <3>2. CASE loop'[w] # loop[w]
      BY <3>2, <1>1
    <3> QED BY <3>1, <3>2
  <2>2. NoEntries' = NoEntries
    BY DEF NoEntries
  <2> QED BY <1>1, <2>1, <2>2 DEF LoopInv
<1>5. NumberInv'
  <2>1. \A w, i \in Incarnation : loop'[w].batch[i] \subseteq accepted[i]
    <3> SUFFICES ASSUME NEW w \in Incarnation, NEW i \in Incarnation
                 PROVE  loop'[w].batch[i] \subseteq accepted[i]
      OBVIOUS
    <3>1. loop'[w] = loop[w] \/ loop'[w].batch[i] = {}
      BY <1>1, LoopTypes
    <3> QED BY <3>1 DEF EdgeStreamInv, NumberInv
  <2> QED BY <2>1, <1>1, <1>2 DEF EdgeStreamInv, NumberInv
<1>6. OwnerInv'
  <2> SUFFICES ASSUME NEW i \in Incarnation
               PROVE  /\ state'[i] = "new" => /\ i \notin here' /\ i \in recovering'
                                              /\ loop'[i].batch = NoEntries
                      /\ state'[i] = "new" \/ lease'[i] = i =>
                           \A v \in Incarnation \ {i} : i \notin known'[v] /\ taken[i][v] = {}
    BY <1>1 DEF OwnerInv, NoEntries
  <2>1. /\ \A w \in Incarnation \ {i} :
             i \in known'[w] => i \in known[w] \/ (lease'[i] = w /\ i \in here)
        /\ lease'[i] = i => lease[i] = i \/ state[i] = "new"
        /\ state'[i] = "new" => /\ state[i] = "new" /\ i \notin here' /\ i \in recovering'
                                /\ loop'[i].batch = NoEntries
    BY DEF QuietLeases
  <2>2. /\ state[i] = "new" => i \notin here
        /\ state[i] = "new" \/ lease[i] = i =>
             \A v \in Incarnation \ {i} : i \notin known[v] /\ taken[i][v] = {}
    BY DEF EdgeStreamInv, OwnerInv
  <2> QED BY <2>1, <2>2
<1>7. ReadInv'
  <2> SUFFICES ASSUME NEW w \in Incarnation, NEW i \in Streams(w)' \ overtaken',
                      state'[w] = "up", w \notin recovering'
               PROVE  taken[i][w] \subseteq loop'[w].batch[i]
    BY <1>1 DEF ReadInv
  <2>1. i \in Incarnation \ overtaken'
    BY DEF Streams, EdgeStreamTypeOK
  <2>2. \/ taken[i][w] = {}
        \/ /\ i \in Streams(w) /\ state[w] = "up" /\ w \notin recovering
           /\ loop'[w].batch = loop[w].batch
    BY <2>1 DEF QuietReads
  <2>3. i \notin overtaken
    BY <2>1, <1>1
  <2> QED BY <2>2, <2>3 DEF EdgeStreamInv, ReadInv
<1>8. SoleInv'
  BY <1>1, <1>2 DEF EdgeStreamInv, SoleInv
<1>9. HolderInv'
  <2> SUFFICES ASSUME NEW w \in Incarnation, NEW i \in known'[w] \ overtaken',
                      lease'[i] = w, w \notin due'
               PROVE  Prefix(taken[i][w], Pending(i)) /\ (Unread(i) = {} \/ OnlyTakenBy(i, w))
    <3>1. \A i, w \in Incarnation : Prefix(taken[i][w], Pending(i))' <=> Prefix(taken[i][w], Pending(i))
      BY <1>1, <1>2 DEF Prefix
    <3>2. \A w \in Incarnation : known'[w] \subseteq Incarnation
      BY DEF EdgeStreamTypeOK
    <3> QED BY <1>2, <3>1, <3>2 DEF HolderInv
  <2>1. i \in Incarnation \ overtaken'
    BY DEF EdgeStreamTypeOK
  <2>2. (i \in known[w] /\ lease[i] = w /\ w \notin due) \/ OnlyTakenBy(i, w)
    BY <2>1 DEF QuietReads
  <2>3. CASE i \in known[w] /\ lease[i] = w /\ w \notin due
    BY <2>1, <2>3, <1>1 DEF EdgeStreamInv, HolderInv
  <2>4. CASE OnlyTakenBy(i, w)
    BY <2>4 DEF OnlyTakenBy, Pending, Prefix
  <2> QED BY <2>2, <2>3, <2>4
<1>10. ClosedInv'
  <2> SUFFICES ASSUME NEW w \in Incarnation, NEW i \in Incarnation \ overtaken',
                      lease'[i] = w \/ (loop'[w].at = "project" /\ loop'[w].on = i)
               PROVE  Closed(loop'[w].batch[i], i)
    BY <1>1 DEF ClosedInv, Closed
  <2>1. CASE loop'[w].batch = NoEntries
    BY <2>1, LoopTypes DEF Closed
  <2>2. CASE loop'[w].batch # NoEntries
    <3>1. loop'[w] = loop[w]
      BY <2>2, <1>1
    <3>2. lease'[i] = w => lease[i] = w
      BY <2>2 DEF QuietLeases
    <3> QED BY <3>1, <3>2, <1>1 DEF EdgeStreamInv, ClosedInv
  <2> QED BY <2>1, <2>2
<1> QED BY <1>3, <1>4, <1>5, <1>6, <1>7, <1>8, <1>9, <1>10 DEF EdgeStreamInv

LEMMA LoopMoves ==
  ASSUME EdgeStreamInv, NEW w \in Incarnation, NEW l \in LoopType, LoopIs(w, l)
  PROVE  /\ loop' \in [Incarnation -> LoopType] /\ loop'[w] = l
         /\ \A v \in Incarnation \ {w} : loop'[v] = loop[v]
BY DEF EdgeStreamInv, LoopInv, LoopIs

\* A loop that puts its batch away is quiet.
LEMMA LoopRests ==
  ASSUME EdgeStreamInv, NEW w \in Incarnation,
         NEW s \in {"start", "look", "idle"}, LoopGoes(w, s)
  PROVE  /\ loop' \in [Incarnation -> LoopType]
         /\ loop'[w].batch = NoEntries /\ loop'[w].at = s
         /\ \A v \in Incarnation \ {w} : loop'[v] = loop[v]
<1>1. s \in Stage
  BY DEF Stage
<1> QED BY <1>1, LoopMoves, LoopTypes DEF LoopGoes

\* Between two readings a loop has no batch, and is not to read first what it
\* has already finished.
LEMMA NoBatch ==
  ASSUME EdgeStreamInv, NEW w \in Incarnation,
         loop[w].at \in {"start", "look", "adopt", "idle"}
  PROVE  /\ loop[w].batch = NoEntries
         /\ \A i \in Streams(w) \ overtaken :
              state[w] = "up" /\ w \notin recovering => taken[i][w] = {}
<1>1. loop[w].batch = NoEntries
  BY DEF EdgeStreamInv, LoopInv
<1>2. \A i \in Streams(w) : i \in Incarnation
  BY DEF EdgeStreamInv, EdgeStreamTypeOK, Streams
<1> QED BY <1>1, <1>2, LoopTypes DEF EdgeStreamInv, ReadInv

LEMMA StartStep ==
  ASSUME EdgeStreamInv, NEW w \in Incarnation, Start(w)
  PROVE  EdgeStreamInv'
<1> USE DEF Start
<1>1. EdgeStreamTypeOK'
  BY DEF EdgeStreamInv, EdgeStreamTypeOK
<1>2. lease' = [lease EXCEPT ![w] = w] /\ lease \in [Incarnation -> Incarnation \cup {NoWorker}]
  BY DEF EdgeStreamInv, EdgeStreamTypeOK
<1>3. state' = [state EXCEPT ![w] = "up"] /\ DOMAIN state = Incarnation
  BY DEF EdgeStreamInv, EdgeStreamTypeOK
<1>4. /\ w \in recovering /\ loop[w].batch = NoEntries /\ taken[w] = taken'[w]
      /\ \A v \in Incarnation \ {w} : taken[w][v] = {}
  BY DEF EdgeStreamInv, OwnerInv
<1>5. Quiet
  BY DEF Quiet, EdgeStreamInv, LoopInv
<1>6. QuietLeases
  BY <1>2, <1>3, <1>4 DEF QuietLeases, EdgeStreamInv, OwnerInv
<1>7. QuietReads
  BY <1>2, <1>3, <1>4 DEF QuietReads, OnlyTakenBy, Streams
<1> QED BY <1>1, <1>5, <1>6, <1>7, QuietStep

\* A lease is no longer the one of who had it.
LEMMA ExpireStep ==
  ASSUME EdgeStreamInv, NEW i \in Incarnation, ExpireLease(i)
  PROVE  EdgeStreamInv'
<1> USE DEF ExpireLease
<1>1. EdgeStreamTypeOK'
  <2>1. faults' \in 0 .. MaxFaults
    BY DEF EdgeStreamInv, EdgeStreamTypeOK, Fault
  <2> QED BY <2>1 DEF EdgeStreamInv, EdgeStreamTypeOK, workerVars
<1>2. \A j, w \in Incarnation : lease'[j] = w => lease[j] = w
  BY DEF EdgeStreamInv, EdgeStreamTypeOK
<1>3. Quiet
  BY DEF Quiet, EdgeStreamInv, LoopInv, workerVars
<1>4. QuietLeases
  BY <1>2 DEF QuietLeases, EdgeStreamInv, OwnerInv, workerVars
<1>5. QuietReads
  BY <1>2 DEF QuietReads, Streams, workerVars
<1> QED BY <1>1, <1>3, <1>4, <1>5, QuietStep

LEMMA BeatStep ==
  ASSUME EdgeStreamInv, NEW w \in Incarnation,
         BeatOwn(w) \/ \E i \in Incarnation : BeatRecovery(w, i)
  PROVE  EdgeStreamInv'
<1>1. CASE BeatOwn(w)
  <2> USE <1>1 DEF BeatOwn, Fail, streamVars
  <2>1. EdgeStreamTypeOK'
    BY DEF EdgeStreamInv, EdgeStreamTypeOK
  <2>2. \A v \in Incarnation : state'[v] = state[v] \/ state'[v] = "failed"
    BY DEF EdgeStreamInv, EdgeStreamTypeOK
  <2>3. Quiet
    BY DEF Quiet, EdgeStreamInv, LoopInv
  <2>4. QuietLeases
    BY <2>2 DEF QuietLeases, EdgeStreamInv, OwnerInv
  <2>5. QuietReads
    BY <2>2 DEF QuietReads, Streams
  <2> QED BY <2>1, <2>3, <2>4, <2>5, QuietStep
<1>2. CASE \E i \in Incarnation : BeatRecovery(w, i)
  <2>1. PICK i \in Incarnation : BeatRecovery(w, i)
    BY <1>2
  <2> USE <2>1 DEF BeatRecovery, Lacks, Gains, streamVars
  <2>2. EdgeStreamTypeOK'
    BY DEF EdgeStreamInv, EdgeStreamTypeOK
  <2>3. Quiet
    BY DEF Quiet, EdgeStreamInv, LoopInv
  <2>4. QuietLeases
    BY DEF QuietLeases, EdgeStreamInv, OwnerInv
  <2>5. QuietReads
    BY DEF QuietReads, Streams
  <2> QED BY <2>2, <2>3, <2>4, <2>5, QuietStep
<1> QED BY <1>1, <1>2

\* A worker that ends recovers nothing and gives leases back, or keeps them.
LEMMA LeaveStep ==
  ASSUME EdgeStreamInv, NEW w \in Incarnation,
         Finish(w) \/ LoopStops(w) \/ WorkerDies(w)
  PROVE  EdgeStreamInv'
<1>1. /\ Leaves(w) /\ (Release(w) \/ UNCHANGED lease) /\ faults' \in 0 .. MaxFaults
      /\ UNCHANGED <<queue, here, grouped, taken>>
  BY DEF Finish, LoopStops, WorkerDies, Leaves, Fault, EdgeStreamInv,
     EdgeStreamTypeOK
<1>2. /\ lease' \in [Incarnation -> Incarnation \cup {NoWorker}]
      /\ \A j, v \in Incarnation : lease'[j] = v => lease[j] = v
  BY <1>1 DEF Release, EdgeStreamInv, EdgeStreamTypeOK
<1>3. /\ state' = [state EXCEPT ![w] = "down"] /\ LoopGoes(w, "start")
      /\ known' = [known EXCEPT ![w] = {}] /\ held' = [held EXCEPT ![w] = {}]
      /\ gone' = [gone EXCEPT ![w] = {}] /\ due' = due \ {w}
      /\ UNCHANGED <<queue, here, grouped, taken, recovering, accepted, projected,
                     overtaken>>
  BY <1>1 DEF Leaves
<1>4. EdgeStreamTypeOK'
  BY <1>1, <1>2, <1>3 DEF EdgeStreamInv, EdgeStreamTypeOK
<1>5. /\ state'[w] = "down" /\ known'[w] = {}
      /\ \A v \in Incarnation \ {w} : state'[v] = state[v] /\ known'[v] = known[v]
  BY <1>3 DEF EdgeStreamInv, EdgeStreamTypeOK
<1>6. /\ loop' \in [Incarnation -> LoopType]
      /\ loop'[w].batch = NoEntries /\ loop'[w].at = "start"
      /\ \A v \in Incarnation \ {w} : loop'[v] = loop[v]
  BY <1>3, LoopRests
<1>7. Quiet
  BY <1>3, <1>6 DEF Quiet
<1>8. QuietLeases
  BY <1>2, <1>3, <1>5, <1>6 DEF QuietLeases, EdgeStreamInv, OwnerInv
<1>9. QuietReads
  BY <1>2, <1>3, <1>5, <1>6 DEF QuietReads, Streams
<1> QED BY <1>4, <1>7, <1>8, <1>9, QuietStep

LEMMA TimeStep ==
  ASSUME EdgeStreamInv, NEW w \in Incarnation, TimePasses(w)
  PROVE  EdgeStreamInv'
<1> USE DEF TimePasses, streamVars
<1>1. EdgeStreamTypeOK'
  BY DEF EdgeStreamInv, EdgeStreamTypeOK
<1>2. Quiet
  BY DEF Quiet, EdgeStreamInv, LoopInv
<1>3. QuietLeases
  BY DEF QuietLeases, EdgeStreamInv, OwnerInv
<1>4. QuietReads
  BY DEF QuietReads, Streams
<1> QED BY <1>1, <1>2, <1>3, <1>4, QuietStep

----------------------------------------------------------------------------
(* A loop between two readings                                             *)

LEMMA PassStep ==
  ASSUME EdgeStreamInv, NEW w \in Incarnation, BeginPass(w) \/ Wait(w)
  PROVE  EdgeStreamInv'
<1>1. /\ UNCHANGED <<streamVars, state, due, accepted, projected, overtaken, faults>>
      /\ state[w] = "up" /\ loop[w].at \in {"start", "idle"}
      /\ LoopGoes(w, "look") \/ LoopGoes(w, "start")
      /\ recovering \subseteq recovering' /\ recovering' \subseteq Incarnation
  BY DEF BeginPass, Wait, Runs, Recovers, EdgeStreamInv, EdgeStreamTypeOK
<1>2. /\ {known', held', gone'} \subseteq [Incarnation -> SUBSET Incarnation]
      /\ \A v \in Incarnation : known'[v] \subseteq known[v]
  <2>1. CASE BeginPass(w)
    BY <2>1 DEF BeginPass, EdgeStreamInv, EdgeStreamTypeOK
  <2>2. CASE Wait(w)
    BY <2>2 DEF Wait, EdgeStreamInv, EdgeStreamTypeOK
  <2> QED BY <2>1, <2>2
<1>3. EdgeStreamTypeOK'
  BY <1>1, <1>2 DEF EdgeStreamInv, EdgeStreamTypeOK, streamVars
<1>4. /\ loop' \in [Incarnation -> LoopType] /\ loop'[w].batch = NoEntries
      /\ loop'[w].at \in {"start", "look"}
      /\ \A v \in Incarnation \ {w} : loop'[v] = loop[v]
  BY <1>1, LoopRests
<1>5. loop[w].batch = NoEntries
  BY <1>1, NoBatch
<1>6. Quiet
  BY <1>1, <1>4 DEF Quiet, streamVars
<1>7. QuietLeases
  BY <1>1, <1>2, <1>4 DEF QuietLeases, EdgeStreamInv, OwnerInv, streamVars
<1>8. QuietReads
  BY <1>1, <1>2, <1>4, <1>5 DEF QuietReads, Streams, streamVars
<1> QED BY <1>3, <1>6, <1>7, <1>8, QuietStep

\* A stream is left to the worker that has its lease; a lease that is taken is
\* not one of a batch, and is followed by a sweep, or counted.
LEMMA DiscoverStep ==
  ASSUME EdgeStreamInv, NEW w \in Incarnation, NEW i \in Incarnation, Discover(w, i)
  PROVE  EdgeStreamInv'
<1>1. /\ UNCHANGED <<queue, here, grouped, taken, state, gone, due, accepted,
                     projected, faults>>
      /\ state[w] = "up" /\ loop[w].at = "look" /\ i # w /\ i \in here \cup known[w]
  BY DEF Discover, Discovers, Recoverable, Runs
<1>2. loop[w].batch = NoEntries
  BY <1>1, NoBatch
<1>3. CASE ~Recoverable(w, i)
  <2>1. /\ UNCHANGED <<lease, loop, overtaken>> /\ Recovers(w)
        /\ known' = Lacks(known, w, i) /\ held' = Lacks(held, w, i)
    BY <1>3 DEF Discover
  <2>2. EdgeStreamTypeOK'
    BY <1>1, <2>1 DEF EdgeStreamInv, EdgeStreamTypeOK, Lacks, Recovers
  <2>3. \A v \in Incarnation : known'[v] \subseteq known[v]
    BY <2>1 DEF EdgeStreamInv, EdgeStreamTypeOK, Lacks
  <2>4. Quiet
    BY <1>1, <2>1 DEF Quiet, EdgeStreamInv, LoopInv
  <2>5. QuietLeases
    BY <1>1, <2>1, <2>3 DEF QuietLeases, EdgeStreamInv, OwnerInv, Recovers
  <2>6. QuietReads
    BY <1>1, <2>1, <2>3 DEF QuietReads, Streams, Recovers
  <2> QED BY <2>2, <2>4, <2>5, <2>6, QuietStep
<1>4. CASE Recoverable(w, i)
  <2>1. /\ UNCHANGED <<known, held, recovering>> /\ lease' = [lease EXCEPT ![i] = w]
        /\ i \in here
    BY <1>4 DEF Discover, Recoverable
  <2>2. /\ lease' \in [Incarnation -> Incarnation \cup {NoWorker}] /\ lease'[i] = w
        /\ \A j \in Incarnation \ {i} : lease'[j] = lease[j]
    BY <2>1 DEF EdgeStreamInv, EdgeStreamTypeOK
  <2>3. CASE i \in known[w]
    <3>1. /\ UNCHANGED loop
          /\ overtaken' = overtaken \cup {j \in {i} : ~OnlyTakenBy(j, w)}
      BY <1>4, <2>3 DEF Discover
    <3>2. EdgeStreamTypeOK'
      BY <1>1, <2>1, <2>2, <3>1 DEF EdgeStreamInv, EdgeStreamTypeOK
    <3>3. i \in overtaken' \/ OnlyTakenBy(i, w)
      BY <3>1
    <3>4. Quiet
      BY <1>1, <3>1 DEF Quiet, EdgeStreamInv, LoopInv
    <3>5. QuietLeases
      BY <1>1, <1>2, <2>1, <2>2, <3>1 DEF QuietLeases, EdgeStreamInv, OwnerInv
    <3>6. QuietReads
      BY <1>1, <2>1, <2>2, <3>1, <3>3 DEF QuietReads, Streams
    <3> QED BY <3>2, <3>4, <3>5, <3>6, QuietStep
  <2>4. CASE i \notin known[w]
    <3>1. UNCHANGED overtaken /\ LoopIs(w, Loop("adopt", i, NoEntries))
      BY <1>4, <2>4 DEF Discover
    <3>2. EdgeStreamTypeOK'
      BY <1>1, <2>1, <2>2, <3>1 DEF EdgeStreamInv, EdgeStreamTypeOK
    <3>3. /\ loop' \in [Incarnation -> LoopType] /\ loop'[w].batch = NoEntries
          /\ loop'[w].at = "adopt" /\ loop'[w].on = i
          /\ \A v \in Incarnation \ {w} : loop'[v] = loop[v]
      <4>1. "adopt" \in Stage
        BY DEF Stage
      <4> QED BY <3>1, <4>1, LoopMoves, LoopTypes
    <3>4. Quiet
      BY <1>1, <3>1, <3>3 DEF Quiet
    <3>5. QuietLeases
      BY <1>1, <1>2, <2>1, <2>2, <3>1, <3>3 DEF QuietLeases, EdgeStreamInv,
         OwnerInv
    <3>6. QuietReads
      BY <1>1, <1>2, <2>1, <2>2, <2>4, <3>1, <3>3 DEF QuietReads, Streams
    <3> QED BY <3>2, <3>4, <3>5, <3>6, QuietStep
  <2> QED BY <2>3, <2>4
<1> QED BY <1>3, <1>4

LEMMA AdoptStep ==
  ASSUME EdgeStreamInv, NEW w \in Incarnation, Adopt(w)
  PROVE  EdgeStreamInv'
<1> DEFINE i == loop[w].on
<1>1. /\ UNCHANGED <<queue, here, taken, state, gone, accepted, projected,
                     overtaken, faults>>
      /\ state[w] = "up" /\ loop[w].at = "adopt" /\ LoopGoes(w, "look")
      /\ recovering \subseteq recovering' /\ recovering' \subseteq recovering \cup {w}
      /\ due \subseteq due' /\ due' \subseteq due \cup {w}
  BY DEF Adopt, Runs, Recovers
<1>2. i \in Incarnation
  BY <1>1 DEF EdgeStreamInv, LoopInv
<1>3. loop[w].batch = NoEntries
  BY <1>1, NoBatch
<1>4. /\ loop' \in [Incarnation -> LoopType] /\ loop'[w].batch = NoEntries
      /\ loop'[w].at = "look" /\ \A v \in Incarnation \ {w} : loop'[v] = loop[v]
  BY <1>1, LoopRests
<1>5. \/ /\ lease' = [lease EXCEPT ![i] = IF @ = w THEN NoWorker ELSE @]
         /\ UNCHANGED <<grouped, known, held>>
      \/ /\ i \in here /\ grouped' = grouped \cup {i} /\ UNCHANGED lease
         /\ \/ UNCHANGED <<known, held>>
            \/ /\ lease[i] = w /\ known' = Gains(known, w, i) /\ held' = Gains(held, w, i)
               /\ w \in recovering' /\ w \in due'
  BY <1>1 DEF Adopt, Recovers
<1>6. /\ lease' \in [Incarnation -> Incarnation \cup {NoWorker}]
      /\ \A j, v \in Incarnation : lease'[j] = v => lease[j] = v
  BY <1>2, <1>5 DEF EdgeStreamInv, EdgeStreamTypeOK
<1>7. /\ known' \in [Incarnation -> SUBSET Incarnation]
      /\ held' \in [Incarnation -> SUBSET Incarnation]
      /\ \A v \in Incarnation \ {w} : known'[v] = known[v]
      /\ \/ known'[w] = known[w]
         \/ /\ known'[w] = known[w] \cup {i} /\ lease'[i] = w /\ i \in here
            /\ w \in recovering' /\ w \in due'
  <2> HIDE DEF i
  <2>1. known \in [Incarnation -> SUBSET Incarnation] /\ held \in [Incarnation -> SUBSET Incarnation]
    BY DEF EdgeStreamInv, EdgeStreamTypeOK
  <2>2. CASE UNCHANGED <<known, held>>
    BY <2>1, <2>2
  <2>3. CASE /\ i \in here /\ lease'[i] = w
             /\ known' = Gains(known, w, i) /\ held' = Gains(held, w, i)
             /\ w \in recovering' /\ w \in due'
    <3>1. /\ known' = [known EXCEPT ![w] = @ \cup {i}]
          /\ held' = [held EXCEPT ![w] = @ \cup {i}]
      BY <2>3 DEF Gains
    <3> QED BY <1>2, <2>1, <2>3, <3>1
  <2> QED BY <1>5, <2>2, <2>3
<1>8. grouped \subseteq grouped' /\ grouped' \subseteq here'
  BY <1>1, <1>5 DEF EdgeStreamInv, EdgeStreamTypeOK
<1> HIDE DEF i
<1>9. EdgeStreamTypeOK'
  BY <1>1, <1>6, <1>7, <1>8 DEF EdgeStreamInv, EdgeStreamTypeOK
<1>10. Quiet
  BY <1>1, <1>4 DEF Quiet
<1>11. QuietLeases
  BY <1>1, <1>4, <1>6, <1>7 DEF QuietLeases, EdgeStreamInv, OwnerInv
<1>12. QuietReads
  BY <1>1, <1>3, <1>4, <1>6, <1>7 DEF QuietReads, Streams
<1> QED BY <1>9, <1>10, <1>11, <1>12, QuietStep

\* What is pending for a loop that forgets it is counted.
LEMMA ReadFailsStep ==
  ASSUME EdgeStreamInv, NEW w \in Incarnation, ReadFails(w)
  PROVE  EdgeStreamInv'
<1>1. /\ UNCHANGED <<queue, taken, lease, state, gone, accepted, projected, faults>>
      /\ state[w] = "up" /\ loop[w].at = "look" /\ LoopGoes(w, "idle")
      /\ here' = here \cup {w} /\ recovering' = recovering \ {w}
      /\ grouped' = grouped \cup {w} \cup (known[w] \cap here)
      /\ overtaken' = overtaken \cup {i \in Streams(w) : taken[i][w] # {}}
      /\ due \subseteq due' /\ due' \subseteq due \cup {w}
  BY DEF ReadFails, Runs
<1>2. /\ known' = [known EXCEPT ![w] = @ \cap here]
      /\ held' = [held EXCEPT ![w] = @ \ (known[w] \ here)]
  BY DEF ReadFails
<1>3. /\ known' \in [Incarnation -> SUBSET Incarnation]
      /\ held' \in [Incarnation -> SUBSET Incarnation]
      /\ \A v \in Incarnation : known'[v] \subseteq known[v]
  BY <1>2 DEF EdgeStreamInv, EdgeStreamTypeOK
<1>4. Streams(w) \subseteq Incarnation /\ here \subseteq Incarnation
  BY DEF Streams, EdgeStreamInv, EdgeStreamTypeOK
<1>5. EdgeStreamTypeOK'
  BY <1>1, <1>3, <1>4 DEF EdgeStreamInv, EdgeStreamTypeOK
<1>6. /\ loop' \in [Incarnation -> LoopType] /\ loop'[w].batch = NoEntries
      /\ loop'[w].at = "idle" /\ \A v \in Incarnation \ {w} : loop'[v] = loop[v]
  BY <1>1, LoopRests
<1>7. Quiet
  BY <1>1, <1>6 DEF Quiet
<1>8. QuietLeases
  BY <1>1, <1>3, <1>6 DEF QuietLeases, EdgeStreamInv, OwnerInv
<1>9. QuietReads
  <2>1. \A v \in Incarnation : Streams(v)' \subseteq Streams(v)
    BY <1>3 DEF Streams
  <2>2. \A i \in Streams(w) \ overtaken' : taken[i][w] = {}
    BY <1>1
  <2> QED BY <1>1, <1>3, <1>6, <2>1, <2>2 DEF QuietReads
<1> QED BY <1>5, <1>7, <1>8, <1>9, QuietStep

\* The rest of a batch stays pending when a lease is lost, and is read again.
LEMMA LosesLeaseStep ==
  ASSUME EdgeStreamInv, NEW w \in Incarnation, NEW i \in Incarnation, LosesLease(w, i),
         UNCHANGED <<streamVars, known, held, due, accepted, projected, overtaken, faults>>
  PROVE  EdgeStreamInv'
<1>1. /\ UNCHANGED <<streamVars, known, held, due, accepted, projected, overtaken, faults>>
      /\ LoopGoes(w, "start")
      /\ \/ state' = [state EXCEPT ![w] = "failed"] /\ UNCHANGED <<gone, recovering>>
         \/ /\ UNCHANGED state /\ gone' = Gains(gone, w, i)
            /\ recovering' = recovering \cup {w}
  BY DEF LosesLease, Fail, Recovers
<1>2. EdgeStreamTypeOK'
  <2>1. /\ state' \in [Incarnation -> {"new", "up", "failed", "down"}]
        /\ gone' \in [Incarnation -> SUBSET Incarnation]
        /\ recovering' \subseteq Incarnation
    BY <1>1 DEF EdgeStreamInv, EdgeStreamTypeOK, Gains
  <2> QED BY <1>1, <2>1 DEF EdgeStreamInv, EdgeStreamTypeOK, streamVars
<1>3. /\ \A v \in Incarnation : state'[v] = state[v] \/ state'[v] = "failed"
      /\ recovering \subseteq recovering'
      /\ state'[w] = "failed" \/ w \in recovering'
  BY <1>1 DEF EdgeStreamInv, EdgeStreamTypeOK
<1>4. /\ loop' \in [Incarnation -> LoopType] /\ loop'[w].batch = NoEntries
      /\ loop'[w].at = "start" /\ \A v \in Incarnation \ {w} : loop'[v] = loop[v]
  BY <1>1, LoopRests
<1>5. Quiet
  BY <1>1, <1>4 DEF Quiet, streamVars
<1>6. QuietLeases
  BY <1>1, <1>3, <1>4 DEF QuietLeases, EdgeStreamInv, OwnerInv, streamVars
<1>7. QuietReads
  BY <1>1, <1>3, <1>4 DEF QuietReads, Streams, streamVars
<1> QED BY <1>2, <1>5, <1>6, <1>7, QuietStep

----------------------------------------------------------------------------
(* The entries of a stream                                                 *)

\* What the parts of a stream are.
LEMMA Parts ==
  ASSUME EdgeStreamInv, NEW i \in Incarnation
  PROVE  /\ Pending(i) \subseteq queue[i] /\ Unread(i) \subseteq queue[i]
         /\ queue[i] = Pending(i) \cup Unread(i)
         /\ queue[i] \subseteq accepted[i] /\ accepted[i] \subseteq Entry
         /\ \A w \in Incarnation : taken[i][w] \subseteq Pending(i)
         /\ \A w \in Incarnation : OnlyTakenBy(i, w) => Pending(i) = taken[i][w]
         /\ accepted[i] \subseteq projected \cup Pending(i) \cup Unread(i)
<1>1. /\ \A w \in Incarnation : taken[i][w] \subseteq queue[i]
      /\ queue[i] \subseteq accepted[i] /\ accepted[i] \subseteq Entry
      /\ accepted[i] \subseteq projected \cup queue[i]
  BY DEF EdgeStreamInv, EdgeStreamTypeOK, NumberInv, NothingLost
<1>2. /\ \A w \in Incarnation : taken[i][w] \subseteq Pending(i)
      /\ Pending(i) \subseteq queue[i]
      /\ \A w \in Incarnation : OnlyTakenBy(i, w) => Pending(i) = taken[i][w]
  BY <1>1 DEF Pending, OnlyTakenBy
<1> QED BY <1>1, <1>2 DEF Unread

\* A set of entries of a stream is closed if it is a prefix of its queue.
LEMMA PrefixIsClosed ==
  ASSUME EdgeStreamInv, NEW i \in Incarnation, NEW S, Prefix(S, queue[i])
  PROVE  Closed(S, i)
<1>1. accepted[i] \subseteq projected \cup queue[i]
  BY DEF EdgeStreamInv, NothingLost
<1> QED BY <1>1 DEF Prefix, Closed

\* What is pending comes before what is not.
LEMMA PendingFirst ==
  ASSUME EdgeStreamInv, NEW i \in Incarnation, NEW S \in SUBSET Pending(i),
         Prefix(S, Pending(i))
  PROVE  Prefix(S, queue[i])
<1> SUFFICES ASSUME NEW e \in queue[i], NEW f \in S, e < f
             PROVE  e \in S
  BY DEF Prefix
<1>1. e \in Int /\ f \in Int
  BY Parts DEF Entry
<1>2. CASE e \in Pending(i)
  BY <1>2 DEF Prefix
<1>3. CASE e \notin Pending(i)
  <2>1. e \in Unread(i)
    BY <1>3 DEF Unread
  <2>2. f < e
    BY <2>1 DEF EdgeStreamInv, NumberInv
  <2> QED BY <1>1, <2>2
<1> QED BY <1>2, <1>3

\* New entries are read in order when nothing is pending.
LEMMA UnreadNext ==
  ASSUME EdgeStreamInv, NEW i \in Incarnation, Pending(i) = {}
  PROVE  Prefix(First(Unread(i)), queue[i])
<1>1. Unread(i) = queue[i] /\ Unread(i) \in SUBSET Entry
  BY Parts
<1> QED BY <1>1, FirstOnes DEF Prefix

----------------------------------------------------------------------------
(* A message is accepted                                                   *)

\* A new message has the next number, in a stream that nobody else reads.
LEMMA AcceptStep ==
  ASSUME EdgeStreamInv, NEW w \in Incarnation, AcceptMessage(w)
  PROVE  EdgeStreamInv'
<1>1. PICK n \in 0 .. MaxAccepts : AcceptedBy(Incarnation) = 1 .. n
  BY DEF EdgeStreamInv, NumberInv
<1>2. Cardinality(AcceptedBy(Incarnation)) = n
  BY <1>1, FS_Interval
<1>3. PICK e \in Entry : /\ e = n + 1
                         /\ queue' = Gains(queue, w, e)
                         /\ accepted' = Gains(accepted, w, e)
  BY <1>2 DEF AcceptMessage
<1>4. /\ here' = here \cup {w} /\ lease[w] = w /\ state[w] \in {"up", "failed"}
      /\ UNCHANGED <<grouped, taken, lease, state, loop, known, held, gone,
                     recovering, due, projected, overtaken, faults>>
  BY DEF AcceptMessage, workerVars
<1>5. /\ queue \in [Incarnation -> SUBSET Entry]
      /\ accepted \in [Incarnation -> SUBSET Entry]
  BY DEF EdgeStreamInv, EdgeStreamTypeOK
<1>6. /\ queue' = [queue EXCEPT ![w] = @ \cup {e}] /\ queue'[w] = queue[w] \cup {e}
      /\ accepted' = [accepted EXCEPT ![w] = @ \cup {e}]
      /\ accepted'[w] = accepted[w] \cup {e}
      /\ \A i \in Incarnation \ {w} : queue'[i] = queue[i] /\ accepted'[i] = accepted[i]
      /\ \A i \in Incarnation : queue[i] \subseteq queue'[i]
  BY <1>3, <1>5 DEF Gains
<1>7. /\ \A i \in Incarnation : \A f \in accepted[i] : f \in Int /\ f < e
      /\ \A f \in projected : f \in Int /\ f < e
  <2>1. \A f \in AcceptedBy(Incarnation) : f \in Int /\ f < e
    BY <1>1, <1>3
  <2>2. \A i \in Incarnation : accepted[i] \subseteq AcceptedBy(Incarnation)
    BY DEF AcceptedBy
  <2> QED BY <2>1, <2>2 DEF EdgeStreamInv, NumberInv
<1>8. /\ e \in Int /\ ~(e < e) /\ e \notin projected
      /\ \A i \in Incarnation : e \notin accepted[i] /\ \A f \in accepted[i] : ~(e < f)
  <2>1. e \in Int /\ ~(e < e)
    BY <1>3 DEF Entry
  <2> QED BY <1>7, <2>1
<1>9. OnlyTakenBy(w, w)
  BY <1>4 DEF OnlyTakenBy, EdgeStreamInv, OwnerInv
<1>10. /\ \A i \in Incarnation : Pending(i)' = Pending(i)
       /\ \A i \in Incarnation \ {w} : Unread(i)' = Unread(i)
       /\ Unread(w)' = Unread(w) \cup {e}
       /\ \A S : First(S)' = First(S)
  <2>1. \A i \in Incarnation : Pending(i)' = Pending(i)
    BY <1>4 DEF Pending
  <2>2. e \notin Pending(w)
    BY <1>8, Parts
  <2>3. \A S : First(S)' = First(S)
    BY DEF First
  <2> QED BY <1>6, <2>1, <2>2, <2>3 DEF Unread
<1>11. EdgeStreamTypeOK'
  <2>1. \A i, v \in Incarnation : taken'[i][v] \subseteq queue'[i]
    BY <1>4, <1>6 DEF EdgeStreamInv, EdgeStreamTypeOK
  <2> QED BY <1>4, <1>5, <1>6, <2>1 DEF EdgeStreamInv, EdgeStreamTypeOK
<1>12. NothingLost'
  BY <1>4, <1>6 DEF EdgeStreamInv, NothingLost
<1>13. InOrder'
  <2> SUFFICES ASSUME NEW i \in Incarnation \ overtaken,
                      NEW f \in accepted'[i], NEW g \in accepted'[i],
                      f < g, g \in projected
               PROVE  f \in projected
    BY <1>4 DEF InOrder
  <2>1. g # e /\ g \in accepted[i]
    BY <1>6, <1>8
  <2>2. f # e /\ f \in accepted[i]
    BY <1>6, <1>8, <2>1
  <2> QED BY <2>1, <2>2 DEF EdgeStreamInv, InOrder
<1>14. LoopInv'
  <2>1. NoEntries' = NoEntries
    BY DEF NoEntries
  <2> QED BY <1>4, <2>1 DEF EdgeStreamInv, LoopInv
<1>15. NumberInv'
  <2>1. AcceptedBy(Incarnation)' = AcceptedBy(Incarnation) \cup {e}
    BY <1>6 DEF AcceptedBy
  <2>2. AcceptedBy(Incarnation)' = 1 .. n + 1 /\ n + 1 \in 0 .. MaxAccepts
    BY <1>1, <1>3, <2>1 DEF Entry
  <2>3. projected' \subseteq AcceptedBy(Incarnation)'
    BY <1>4, <2>1 DEF EdgeStreamInv, NumberInv
  <2>4. \A i, j \in Incarnation : i # j => accepted'[i] \cap accepted'[j] = {}
    BY <1>6, <1>8 DEF EdgeStreamInv, NumberInv
  <2>5. \A i \in Incarnation : queue'[i] \subseteq accepted'[i]
    BY <1>6 DEF EdgeStreamInv, NumberInv
  <2>6. \A v, i \in Incarnation : loop'[v].batch[i] \subseteq accepted'[i]
    BY <1>4, <1>6 DEF EdgeStreamInv, NumberInv
  <2>7. \A i \in Incarnation : \A f \in Pending(i)', g \in Unread(i)' : f < g
    <3> SUFFICES ASSUME NEW i \in Incarnation, NEW f \in Pending(i),
                        NEW g \in Unread(i)'
                 PROVE  f < g
      BY <1>10
    <3>1. f \in accepted[i]
      BY Parts
    <3>2. g \in Unread(i) \/ g = e
      BY <1>10
    <3> QED BY <1>7, <3>1, <3>2 DEF EdgeStreamInv, NumberInv
  <2>8. \A i, v, u \in Incarnation : v # u => taken'[i][v] \cap taken'[i][u] = {}
    BY <1>4 DEF EdgeStreamInv, NumberInv
  <2> QED BY <2>2, <2>3, <2>4, <2>5, <2>6, <2>7, <2>8 DEF NumberInv
<1>16. OwnerInv'
  BY <1>4 DEF EdgeStreamInv, OwnerInv, NoEntries
<1>17. ReadInv'
  BY <1>4 DEF EdgeStreamInv, ReadInv, Streams
<1>18. SoleInv'
  <2>1. \A v, u \in Incarnation : taken[w][v] = {} \/ taken[w][u] = {} \/ v = u
    BY <1>9 DEF OnlyTakenBy
  <2> QED BY <1>4, <1>10, <2>1 DEF EdgeStreamInv, SoleInv
<1>19. HolderInv'
  <2> SUFFICES ASSUME NEW v \in Incarnation, NEW i \in known[v] \ overtaken,
                      lease[i] = v, v \notin due
               PROVE  /\ Prefix(taken[i][v], Pending(i))
                      /\ Unread(i)' = {} \/ OnlyTakenBy(i, v)
    BY <1>4, <1>10 DEF HolderInv, Prefix, OnlyTakenBy, EdgeStreamInv,
       EdgeStreamTypeOK
  <2>1. i \in Incarnation
    BY DEF EdgeStreamInv, EdgeStreamTypeOK
  <2>2. CASE i = w
    BY <1>4, <1>9, <2>2, <2>1, Parts DEF Prefix
  <2>3. CASE i # w
    BY <1>10, <2>1, <2>3 DEF EdgeStreamInv, HolderInv
  <2> QED BY <2>2, <2>3
<1>20. ClosedInv'
  <2> SUFFICES ASSUME NEW v \in Incarnation, NEW i \in Incarnation \ overtaken,
                      lease[i] = v \/ (loop[v].at = "project" /\ loop[v].on = i),
                      NEW f \in accepted'[i], NEW g \in loop[v].batch[i], f < g
               PROVE  f \in projected \/ f \in loop[v].batch[i]
    BY <1>4 DEF ClosedInv, Closed
  <2>1. g \in accepted[i]
    BY DEF EdgeStreamInv, NumberInv
  <2>2. f \in accepted[i]
    BY <1>6, <1>8, <2>1
  <2> QED BY <2>1, <2>2 DEF EdgeStreamInv, ClosedInv, Closed
<1> QED BY <1>11, <1>12, <1>13, <1>14, <1>15, <1>16, <1>17, <1>18, <1>19, <1>20
        DEF EdgeStreamInv

----------------------------------------------------------------------------
(* A batch is projected and acknowledged                                   *)

\* What a worker removes is an empty stream.
LEMMA EraseStep ==
  ASSUME EdgeStreamInv, NEW w \in Incarnation, NEW i \in Incarnation, EraseDead(w, i)
  PROVE  EdgeStreamInv'
<1>1. /\ i \in known[w] /\ lease[i] = w /\ queue[i] = {}
      /\ here' = here \ {i} /\ grouped' = grouped \ {i}
      /\ queue' = [queue EXCEPT ![i] = {}] /\ taken' = [taken EXCEPT ![i] = NoEntries]
      /\ lease' = [lease EXCEPT ![i] = NoWorker]
      /\ known' = [known EXCEPT ![w] = @ \ {i}] /\ held' = [held EXCEPT ![w] = @ \ {i}]
      /\ UNCHANGED <<state, loop, gone, recovering, due, accepted, projected,
                     overtaken, faults>>
  BY DEF EraseDead, Erasable, IsEmpty, Lacks
<1>2. UNCHANGED <<queue, taken>>
  <2>1. UNCHANGED queue
    BY <1>1 DEF EdgeStreamInv, EdgeStreamTypeOK
  <2>2. /\ taken \in [Incarnation -> [Incarnation -> SUBSET Entry]]
        /\ \A v \in Incarnation : taken[i][v] = {}
    BY <1>1 DEF EdgeStreamInv, EdgeStreamTypeOK
  <2>3. taken[i] = NoEntries
    BY <2>2 DEF NoEntries
  <2> QED BY <1>1, <2>1, <2>2, <2>3
<1>3. /\ lease' \in [Incarnation -> Incarnation \cup {NoWorker}]
      /\ \A j, v \in Incarnation : lease'[j] = v => lease[j] = v
      /\ known' \in [Incarnation -> SUBSET Incarnation]
      /\ held' \in [Incarnation -> SUBSET Incarnation]
      /\ \A v \in Incarnation : known'[v] \subseteq known[v]
  BY <1>1 DEF EdgeStreamInv, EdgeStreamTypeOK
<1>4. EdgeStreamTypeOK'
  BY <1>1, <1>2, <1>3 DEF EdgeStreamInv, EdgeStreamTypeOK
<1>5. Quiet
  BY <1>1, <1>2 DEF Quiet, EdgeStreamInv, LoopInv
<1>6. QuietLeases
  BY <1>1, <1>3 DEF QuietLeases, EdgeStreamInv, OwnerInv
<1>7. QuietReads
  BY <1>1, <1>3 DEF QuietReads, Streams
<1> QED BY <1>4, <1>5, <1>6, <1>7, QuietStep

LEMMA SamePending ==
  ASSUME EdgeStreamInv, UNCHANGED <<queue, taken, lease, known, due, overtaken>>
  PROVE  SoleInv' /\ HolderInv'
<1>1. /\ \A i \in Incarnation : Pending(i)' = Pending(i) /\ Unread(i)' = Unread(i)
      /\ \A i, w \in Incarnation : OnlyTakenBy(i, w)' <=> OnlyTakenBy(i, w)
  BY DEF Pending, Unread, OnlyTakenBy
<1>2. \A i, w \in Incarnation : First(taken[i][w])' = First(taken[i][w])
  BY DEF First
<1>3. SoleInv'
  BY <1>1, <1>2 DEF EdgeStreamInv, SoleInv
<1>4. \A w \in Incarnation : known[w] \subseteq Incarnation
  BY DEF EdgeStreamInv, EdgeStreamTypeOK
<1>5. HolderInv'
  BY <1>1, <1>4 DEF EdgeStreamInv, HolderInv, Prefix
<1> QED BY <1>3, <1>5

\* The batch of a stream whose lease is the worker's is closed, and stays so.
LEMMA CheckStep ==
  ASSUME EdgeStreamInv, NEW w \in Incarnation, NEW i \in Incarnation, CheckLease(w, i)
  PROVE  EdgeStreamInv'
<1>1. UNCHANGED <<streamVars, known, held, due, accepted, projected, overtaken, faults>>
  BY DEF CheckLease
<1>2. CASE lease[i] # w
  BY <1>1, <1>2, LosesLeaseStep DEF CheckLease
<1>3. CASE lease[i] = w
  <2>1. UNCHANGED <<queue, here, grouped, taken, lease, state, gone, recovering>>
    BY <1>1, <1>3 DEF CheckLease, streamVars
  <2>2. /\ state[w] = "up" /\ loop[w].at = "work"
        /\ LoopIs(w, Loop("project", i, loop[w].batch))
    BY <1>3 DEF CheckLease, Runs
  <2>3. /\ loop' \in [Incarnation -> LoopType] /\ loop'[w].at = "project"
        /\ loop'[w].on = i /\ loop'[w].batch = loop[w].batch
        /\ \A v \in Incarnation \ {w} : loop'[v] = loop[v]
    <3>1. "project" \in Stage /\ loop[w].batch \in [Incarnation -> SUBSET Entry]
      BY DEF Stage, EdgeStreamInv, LoopInv, LoopType
    <3> QED BY <2>2, <3>1, LoopMoves, LoopTypes
  <2>4. \A v \in Incarnation : loop'[v].batch = loop[v].batch
    BY <2>3
  <2>5. /\ \A j \in Incarnation : Pending(j)' = Pending(j) /\ Unread(j)' = Unread(j)
        /\ \A j, v \in Incarnation : OnlyTakenBy(j, v)' <=> OnlyTakenBy(j, v)
        /\ AcceptedBy(Incarnation)' = AcceptedBy(Incarnation)
        /\ NoEntries' = NoEntries
    BY <1>1, <2>1 DEF Pending, Unread, OnlyTakenBy, AcceptedBy, NoEntries
  <2>6. EdgeStreamTypeOK' /\ NothingLost' /\ InOrder'
    BY <1>1, <2>1 DEF EdgeStreamInv, EdgeStreamTypeOK, NothingLost, InOrder
  <2>7. LoopInv'
    BY <1>1, <2>3, <2>5 DEF EdgeStreamInv, LoopInv
  <2>8. NumberInv'
    BY <1>1, <2>1, <2>4, <2>5 DEF EdgeStreamInv, NumberInv
  <2>9. OwnerInv'
    BY <1>1, <2>1, <2>4, <2>5 DEF EdgeStreamInv, OwnerInv
  <2>10. ReadInv'
    BY <1>1, <2>1, <2>4 DEF EdgeStreamInv, ReadInv, Streams
  <2>11. SoleInv' /\ HolderInv'
    BY <1>1, <2>1, SamePending
  <2>12. ClosedInv'
    <3> SUFFICES ASSUME NEW v \in Incarnation, NEW j \in Incarnation \ overtaken,
                        lease[j] = v \/ (loop'[v].at = "project" /\ loop'[v].on = j)
                 PROVE  Closed(loop[v].batch[j], j)
      BY <1>1, <2>1, <2>4 DEF ClosedInv, Closed
    <3>1. lease[j] = v \/ (loop[v].at = "project" /\ loop[v].on = j)
      BY <1>3, <2>3
    <3> QED BY <3>1 DEF EdgeStreamInv, ClosedInv
  <2> QED BY <2>6, <2>7, <2>8, <2>9, <2>10, <2>11, <2>12 DEF EdgeStreamInv
<1> QED BY <1>2, <1>3

\* What a failing projection has done comes before the rest of the batch.
LEMMA ProjectStep ==
  ASSUME EdgeStreamInv, NEW w \in Incarnation, ProjectBatch(w)
  PROVE  EdgeStreamInv'
<1> DEFINE i == loop[w].on
           B == loop[w].batch[i]
<1>1. /\ UNCHANGED <<streamVars, state, known, held, gone, due, accepted, overtaken>>
      /\ state[w] = "up" /\ loop[w].at = "project"
  BY DEF ProjectBatch, Runs
<1>2. UNCHANGED <<queue, here, grouped, taken, lease>>
  BY <1>1 DEF streamVars
<1>3. /\ i \in Incarnation /\ B \subseteq accepted[i] /\ accepted[i] \subseteq Entry
      /\ loop[w].batch \in [Incarnation -> SUBSET Entry]
  <2>1. i \in Incarnation /\ loop[w].batch \in [Incarnation -> SUBSET Entry]
    BY <1>1 DEF EdgeStreamInv, LoopInv, LoopType
  <2>2. B \subseteq accepted[i]
    BY <2>1 DEF EdgeStreamInv, NumberInv
  <2> QED BY <2>1, <2>2, Parts
<1>4. PICK P \in SUBSET B :
        /\ projected' = projected \cup P
        /\ \A e \in B, f \in P : e < f => e \in P
        /\ \/ /\ P = B /\ LoopIs(w, Loop("acknowledge", i, loop[w].batch))
              /\ UNCHANGED <<recovering, faults>>
           \/ LoopGoes(w, "start") /\ Recovers(w) /\ Fault
  <2>1. CASE /\ projected' = projected \cup B
             /\ LoopIs(w, Loop("acknowledge", i, loop[w].batch))
             /\ UNCHANGED <<recovering, faults>>
    BY <2>1
  <2>2. CASE /\ Fault /\ Recovers(w) /\ LoopGoes(w, "start")
             /\ \E e \in {0} \cup B : projected' = projected \cup {f \in B : f <= e}
    <3>1. PICK e \in {0} \cup B : projected' = projected \cup {f \in B : f <= e}
      BY <2>2
    <3>2. e \in Int /\ B \subseteq Int
      BY <1>3 DEF Entry
    <3>3. \A g \in B, f \in {h \in B : h <= e} : g < f => g \in {h \in B : h <= e}
      BY <3>2
    <3> QED BY <2>2, <3>1, <3>3
  <2> QED BY <2>1, <2>2 DEF ProjectBatch
<1>5. /\ loop' \in [Incarnation -> LoopType]
      /\ \A v \in Incarnation \ {w} : loop'[v] = loop[v]
      /\ \/ /\ loop'[w].at = "acknowledge" /\ loop'[w].on = i /\ P = B
            /\ loop'[w].batch = loop[w].batch /\ UNCHANGED <<recovering, faults>>
         \/ /\ loop'[w].at = "start" /\ loop'[w].batch = NoEntries
            /\ recovering' = recovering \cup {w} /\ faults' \in 0 .. MaxFaults
  <2>1. "acknowledge" \in Stage
    BY DEF Stage
  <2>2. Recovers(w) /\ Fault =>
          recovering' = recovering \cup {w} /\ faults' \in 0 .. MaxFaults
    BY DEF Recovers, Fault, EdgeStreamInv, EdgeStreamTypeOK
  <2> QED BY <1>3, <1>4, <2>1, <2>2, LoopMoves, LoopRests, LoopTypes
<1>6. \A v, j \in Incarnation : loop'[v].batch[j] = loop[v].batch[j] \/
                                 (v = w /\ loop'[v].batch[j] = {} /\ v \in recovering')
  BY <1>5, LoopTypes
<1> HIDE DEF i, B
<1>7. /\ \A j \in Incarnation : Pending(j)' = Pending(j) /\ Unread(j)' = Unread(j)
      /\ \A j, v \in Incarnation : OnlyTakenBy(j, v)' <=> OnlyTakenBy(j, v)
      /\ AcceptedBy(Incarnation)' = AcceptedBy(Incarnation)
  BY <1>1, <1>2 DEF Pending, Unread, OnlyTakenBy, AcceptedBy
<1>8. EdgeStreamTypeOK'
  <2>1. /\ projected' \subseteq Entry /\ recovering' \subseteq Incarnation
        /\ faults' \in 0 .. MaxFaults
    BY <1>3, <1>4, <1>5 DEF EdgeStreamInv, EdgeStreamTypeOK
  <2> QED BY <1>1, <1>2, <2>1 DEF EdgeStreamInv, EdgeStreamTypeOK
<1>9. NothingLost'
  BY <1>1, <1>2, <1>4 DEF EdgeStreamInv, NothingLost
<1>10. InOrder'
  <2> SUFFICES ASSUME NEW j \in Incarnation \ overtaken,
                      NEW e \in accepted[j], NEW f \in accepted[j],
                      e < f, f \in projected'
               PROVE  e \in projected'
    BY <1>1 DEF InOrder
  <2>1. CASE f \in projected
    BY <1>4, <2>1 DEF EdgeStreamInv, InOrder
  <2>2. CASE f \in P
    <3>1. j = i
      BY <1>3, <2>2 DEF EdgeStreamInv, NumberInv
    <3>2. Closed(B, i)
      BY <1>1, <1>3, <3>1 DEF EdgeStreamInv, ClosedInv, i, B
    <3>3. e \in projected \/ e \in B
      BY <2>2, <3>1, <3>2 DEF Closed
    <3> QED BY <1>4, <2>2, <3>3
  <2> QED BY <1>4, <2>1, <2>2
<1>11. LoopInv'
  <2>1. ASSUME NEW v \in Incarnation
        PROVE  /\ loop'[v].at \in {"start", "look", "adopt", "idle"} => loop'[v].batch = NoEntries
               /\ loop'[v].at \in {"adopt", "project", "acknowledge"} => loop'[v].on \in Incarnation
               /\ loop'[v].at = "acknowledge" => loop'[v].batch[loop'[v].on] \subseteq projected'
    <3>1. CASE v = w
      BY <1>3, <1>4, <1>5, <3>1 DEF B
    <3>2. CASE v # w
      BY <1>4, <1>5, <3>2 DEF EdgeStreamInv, LoopInv
    <3> QED BY <3>1, <3>2
  <2>2. NoEntries' = NoEntries
    BY DEF NoEntries
  <2> QED BY <1>5, <2>1, <2>2 DEF LoopInv
<1>12. NumberInv'
  <2>1. \A v, j \in Incarnation : loop'[v].batch[j] \subseteq accepted[j]
    BY <1>6 DEF EdgeStreamInv, NumberInv
  <2>2. projected' \subseteq AcceptedBy(Incarnation)
    BY <1>3, <1>4 DEF EdgeStreamInv, NumberInv, AcceptedBy
  <2> QED BY <1>1, <1>2, <1>7, <2>1, <2>2 DEF EdgeStreamInv, NumberInv
<1>13. OwnerInv'
  <2>1. \A v \in Incarnation : state[v] = "new" =>
          loop'[v].batch = loop[v].batch /\ (v \in recovering => v \in recovering')
    BY <1>1, <1>5
  <2>2. NoEntries' = NoEntries
    BY DEF NoEntries
  <2> QED BY <1>1, <1>2, <2>1, <2>2 DEF EdgeStreamInv, OwnerInv
<1>14. ReadInv'
  <2> SUFFICES ASSUME NEW v \in Incarnation, NEW j \in Streams(v) \ overtaken,
                      state[v] = "up", v \notin recovering'
               PROVE  taken[j][v] \subseteq loop'[v].batch[j]
    BY <1>1, <1>2 DEF ReadInv, Streams
  <2>1. j \in Incarnation
    BY DEF Streams, EdgeStreamInv, EdgeStreamTypeOK
  <2>2. v \notin recovering /\ loop'[v].batch[j] = loop[v].batch[j]
    BY <1>5, <1>6, <2>1
  <2> QED BY <2>2 DEF EdgeStreamInv, ReadInv
<1>15. SoleInv' /\ HolderInv'
  BY <1>1, <1>2, SamePending
<1>16. ClosedInv'
  <2> SUFFICES ASSUME NEW v \in Incarnation, NEW j \in Incarnation \ overtaken,
                      lease[j] = v \/ (loop'[v].at = "project" /\ loop'[v].on = j)
               PROVE  /\ loop'[v].batch[j] = {} \/ Closed(loop'[v].batch[j], j)
    BY <1>1, <1>2, <1>4 DEF ClosedInv, Closed
  <2>1. lease[j] = v \/ (loop[v].at = "project" /\ loop[v].on = j)
    BY <1>5
  <2> QED BY <1>6, <2>1 DEF EdgeStreamInv, ClosedInv
<1> QED BY <1>8, <1>9, <1>10, <1>11, <1>12, <1>13, <1>14, <1>15, <1>16
           DEF EdgeStreamInv

\* What is removed has been projected, and was all the worker had of the stream.
LEMMA AcknowledgeStep ==
  ASSUME EdgeStreamInv, NEW w \in Incarnation, AcknowledgeBatch(w)
  PROVE  EdgeStreamInv'
<1>0. PICK i \in Incarnation : i = loop[w].on
  BY DEF AcknowledgeBatch, Runs, EdgeStreamInv, LoopInv
<1> DEFINE B == loop[w].batch[i]
           left == [loop[w].batch EXCEPT ![i] = {}]
<1>1. /\ UNCHANGED <<here, grouped, lease, known, held, due, accepted, projected,
                     overtaken, faults>>
      /\ state[w] = "up" /\ loop[w].at = "acknowledge"
  BY DEF AcknowledgeBatch, Runs
<1>2. /\ i \in Incarnation /\ loop[w].batch \in [Incarnation -> SUBSET Entry]
      /\ B \subseteq projected
  BY <1>0, <1>1 DEF EdgeStreamInv, LoopInv, LoopType
<1>3. CASE lease[i] # w
  <2>1. LosesLease(w, i) /\ UNCHANGED <<queue, taken>>
    BY <1>0, <1>3 DEF AcknowledgeBatch
  <2> QED BY <1>1, <1>2, <2>1, LosesLeaseStep DEF streamVars
<1>4. CASE lease[i] = w
  <2>1. /\ queue' = [queue EXCEPT ![i] = @ \ B]
        /\ taken' = [taken EXCEPT ![i] = [v \in Incarnation |-> @[v] \ B]]
        /\ LoopIs(w, IF left = NoEntries THEN LoopAt("start")
                     ELSE Loop("work", NoWorker, left))
        /\ UNCHANGED <<state, gone, recovering>>
    BY <1>0, <1>4 DEF AcknowledgeBatch
  <2>2. /\ left \in [Incarnation -> SUBSET Entry] /\ left[i] = {}
        /\ \A j \in Incarnation \ {i} : left[j] = loop[w].batch[j]
    BY <1>2
  <2> HIDE DEF B, left
  <2>3. /\ loop' \in [Incarnation -> LoopType] /\ loop'[w].batch = left
        /\ \/ loop'[w].at = "start" /\ loop'[w].batch = NoEntries
           \/ loop'[w].at = "work"
        /\ \A v \in Incarnation \ {w} : loop'[v] = loop[v]
    <3>1. "start" \in Stage /\ "work" \in Stage
      BY DEF Stage
    <3>2. CASE left = NoEntries
      BY <2>1, <3>1, <3>2, LoopMoves, LoopTypes
    <3>3. CASE left # NoEntries
      BY <2>1, <2>2, <3>1, <3>3, LoopMoves, LoopTypes
    <3> QED BY <3>2, <3>3
  <2>4. /\ queue \in [Incarnation -> SUBSET Entry]
        /\ taken \in [Incarnation -> [Incarnation -> SUBSET Entry]]
    BY DEF EdgeStreamInv, EdgeStreamTypeOK
  <2>5. /\ queue' \in [Incarnation -> SUBSET Entry] /\ queue'[i] = queue[i] \ B
        /\ \A j \in Incarnation \ {i} : queue'[j] = queue[j]
    BY <1>2, <2>1, <2>4
  <2>6. /\ taken' \in [Incarnation -> [Incarnation -> SUBSET Entry]]
        /\ \A v \in Incarnation : taken'[i][v] = taken[i][v] \ B
        /\ \A j \in Incarnation \ {i} : taken'[j] = taken[j]
    BY <1>2, <2>1, <2>4
  <2>7. /\ Pending(i)' = Pending(i) \ B /\ Unread(i)' = Unread(i) \ B
        /\ \A j \in Incarnation \ {i} : Pending(j)' = Pending(j) /\ Unread(j)' = Unread(j)
    <3>1. /\ Pending(i)' = Pending(i) \ B
          /\ \A j \in Incarnation \ {i} : Pending(j)' = Pending(j)
      BY <1>2, <2>6 DEF Pending
    <3> QED BY <2>5, <3>1 DEF Unread
  <2>8. /\ \A j, v \in Incarnation : taken'[j][v] \subseteq taken[j][v]
        /\ \A j \in Incarnation : queue'[j] \subseteq queue[j] /\ Unread(j)' \subseteq Unread(j)
        /\ \A v, j \in Incarnation : loop'[v].batch[j] \subseteq loop[v].batch[j]
        /\ \A j, v \in Incarnation : OnlyTakenBy(j, v) => OnlyTakenBy(j, v)'
    <3>1. \A j, v \in Incarnation : taken'[j][v] \subseteq taken[j][v]
      BY <1>2, <2>6
    <3>2. \A j \in Incarnation : queue'[j] \subseteq queue[j] /\ Unread(j)' \subseteq Unread(j)
      BY <1>2, <2>5, <2>7
    <3>3. \A v, j \in Incarnation : loop'[v].batch[j] \subseteq loop[v].batch[j]
      BY <1>2, <2>2, <2>3
    <3>4. \A j, v \in Incarnation : OnlyTakenBy(j, v) => OnlyTakenBy(j, v)'
      BY <3>1 DEF OnlyTakenBy
    <3> QED BY <3>1, <3>2, <3>3, <3>4
  <2>9. EdgeStreamTypeOK'
    <3>1. \A j, v \in Incarnation : taken'[j][v] \subseteq queue'[j]
      <4> SUFFICES ASSUME NEW j \in Incarnation, NEW v \in Incarnation
                   PROVE  taken'[j][v] \subseteq queue'[j]
        OBVIOUS
      <4>1. taken[j][v] \subseteq queue[j]
        BY DEF EdgeStreamInv, EdgeStreamTypeOK
      <4> QED BY <2>5, <2>6, <4>1
    <3> QED BY <1>1, <2>1, <2>5, <2>6, <3>1 DEF EdgeStreamInv, EdgeStreamTypeOK
  <2>10. NothingLost'
    BY <1>1, <1>2, <2>5 DEF EdgeStreamInv, NothingLost, B
  <2>11. InOrder'
    BY <1>1 DEF EdgeStreamInv, InOrder
  <2>12. LoopInv'
    <3>1. ASSUME NEW v \in Incarnation
          PROVE  /\ loop'[v].at \in {"start", "look", "adopt", "idle"} => loop'[v].batch = NoEntries
                 /\ loop'[v].at \in {"adopt", "project", "acknowledge"} => loop'[v].on \in Incarnation
                 /\ loop'[v].at = "acknowledge" => loop'[v].batch[loop'[v].on] \subseteq projected'
      <4>1. CASE v = w
        BY <2>3, <4>1
      <4>2. CASE v # w
        BY <1>1, <2>3, <4>2 DEF EdgeStreamInv, LoopInv
      <4> QED BY <4>1, <4>2
    <3>2. NoEntries' = NoEntries
      BY DEF NoEntries
    <3> QED BY <2>3, <3>1, <3>2 DEF LoopInv
  <2>13. NumberInv'
    <3>1. AcceptedBy(Incarnation)' = AcceptedBy(Incarnation)
      BY <1>1 DEF AcceptedBy
    <3>2. \A j \in Incarnation : queue'[j] \subseteq accepted[j]
      BY <2>8, Parts
    <3>3. \A v, j \in Incarnation : loop'[v].batch[j] \subseteq accepted[j]
      BY <2>8 DEF EdgeStreamInv, NumberInv
    <3>4. \A j \in Incarnation : Pending(j)' \subseteq Pending(j)
      BY <1>2, <2>7
    <3>5. \A j \in Incarnation : \A e \in Pending(j)', f \in Unread(j)' : e < f
      BY <2>8, <3>4 DEF EdgeStreamInv, NumberInv
    <3>6. \A j, v, u \in Incarnation : v # u => taken'[j][v] \cap taken'[j][u] = {}
      BY <2>8 DEF EdgeStreamInv, NumberInv
    <3> QED BY <1>1, <3>1, <3>2, <3>3, <3>5, <3>6 DEF EdgeStreamInv, NumberInv
  <2>14. OwnerInv'
    <3>1. \A v \in Incarnation : state[v] = "new" => loop'[v].batch = loop[v].batch
      BY <1>1, <2>3
    <3>2. NoEntries' = NoEntries
      BY DEF NoEntries
    <3>3. \A j, v \in Incarnation : taken[j][v] = {} => taken'[j][v] = {}
      BY <2>8
    <3> QED BY <1>1, <2>1, <3>1, <3>2, <3>3 DEF EdgeStreamInv, OwnerInv
  <2>15. ReadInv'
    <3> SUFFICES ASSUME NEW v \in Incarnation, NEW j \in Streams(v) \ overtaken,
                        state[v] = "up", v \notin recovering
                 PROVE  taken'[j][v] \subseteq loop'[v].batch[j]
      BY <1>1, <2>1 DEF ReadInv, Streams
    <3>1. j \in Incarnation
      BY DEF Streams, EdgeStreamInv, EdgeStreamTypeOK
    <3>2. taken[j][v] \subseteq loop[v].batch[j]
      BY DEF EdgeStreamInv, ReadInv
    <3>3. CASE v = w /\ j = i
      BY <1>2, <2>6, <3>2, <3>3 DEF B
    <3>4. CASE v # w \/ j # i
      BY <2>2, <2>3, <2>8, <3>1, <3>2, <3>4
    <3> QED BY <3>3, <3>4
  <2>16. SoleInv'
    <3>1. \A j \in Incarnation \ overtaken, v \in Incarnation :
            First(taken[j][v])' = taken'[j][v]
      <4> SUFFICES ASSUME NEW j \in Incarnation \ overtaken, NEW v \in Incarnation
                   PROVE  First(taken[j][v])' = taken'[j][v]
        OBVIOUS
      <4>1. First(taken[j][v])' = First(taken'[j][v])
        BY DEF First
      <4>2. /\ taken[j][v] \in SUBSET Entry /\ taken'[j][v] \in SUBSET taken[j][v]
            /\ First(taken[j][v]) = taken[j][v]
        BY <2>4, <2>8 DEF EdgeStreamInv, SoleInv
      <4> QED BY <4>1, <4>2, FirstOfPart
    <3>2. ASSUME NEW j \in Incarnation \ overtaken, Unread(j)' # {},
                 NEW v \in Incarnation, NEW u \in Incarnation
          PROVE  taken'[j][v] = {} \/ taken'[j][u] = {} \/ v = u
      <4>1. Unread(j) # {}
        BY <2>8, <3>2
      <4>2. taken[j][v] = {} \/ taken[j][u] = {} \/ v = u
        BY <4>1 DEF EdgeStreamInv, SoleInv
      <4> QED BY <2>8, <4>2
    <3> QED BY <1>1, <3>1, <3>2 DEF SoleInv
  <2>17. HolderInv'
    <3> SUFFICES ASSUME NEW v \in Incarnation, NEW j \in known[v] \ overtaken,
                        lease[j] = v, v \notin due
                 PROVE  /\ Prefix(taken[j][v], Pending(j))'
                        /\ Unread(j)' = {} \/ OnlyTakenBy(j, v)'
      BY <1>1 DEF HolderInv
    <3>1. j \in Incarnation
      BY DEF EdgeStreamInv, EdgeStreamTypeOK
    <3>2. Prefix(taken[j][v], Pending(j)) /\ (Unread(j) = {} \/ OnlyTakenBy(j, v))
      BY DEF EdgeStreamInv, HolderInv
    <3>3. Prefix(taken[j][v], Pending(j))'
      BY <1>2, <2>6, <2>7, <3>1, <3>2 DEF Prefix
    <3> QED BY <2>8, <3>1, <3>2, <3>3
  <2>18. ClosedInv'
    <3> SUFFICES ASSUME NEW v \in Incarnation, NEW j \in Incarnation \ overtaken,
                        lease[j] = v \/ (loop'[v].at = "project" /\ loop'[v].on = j)
                 PROVE  loop'[v].batch[j] = {} \/ Closed(loop'[v].batch[j], j)
      BY <1>1 DEF ClosedInv, Closed
    <3>1. CASE v = w /\ j = i
      BY <2>2, <2>3, <3>1
    <3>2. CASE v # w \/ j # i
      <4>1. loop'[v].batch[j] = loop[v].batch[j]
        BY <2>2, <2>3, <3>2
      <4>2. lease[j] = v \/ (loop[v].at = "project" /\ loop[v].on = j)
        BY <2>3
      <4> QED BY <4>1, <4>2 DEF EdgeStreamInv, ClosedInv
    <3> QED BY <3>1, <3>2
  <2> QED BY <2>9, <2>10, <2>11, <2>12, <2>13, <2>14, <2>15, <2>16, <2>17, <2>18
          DEF EdgeStreamInv
<1> QED BY <1>3, <1>4

----------------------------------------------------------------------------
(* A reading                                                               *)

\* What is returned of each stream, by the command that finds something.
LEMMA ReadKinds ==
  ASSUME NEW w \in Incarnation, NEW sweep \in BOOLEAN
  PROVE  LET b == ReadFirst(w, sweep)
             swept == /\ Own(w, known[w]) = NoEntries
                      /\ Claimed(known[w]) = NoEntries
         IN \/ sweep /\ b = Own(w, known[w]) /\ b # NoEntries
            \/ sweep /\ b = Claimed(known[w]) /\ Own(w, known[w]) = NoEntries
            \/ (sweep => swept) /\ b = Own(w, Streams(w))
            \/ (sweep => swept) /\ w \notin recovering /\ b = Fresh(Streams(w))
<1>1. CASE sweep = TRUE
  BY ONLY <1>1, ZenonT(30) DEF ReadFirst, OrElse
<1>2. CASE sweep = FALSE
  BY ONLY <1>2, ZenonT(30) DEF ReadFirst, OrElse
<1> QED BY ONLY <1>1, <1>2, Zenon

LEMMA ReadTypes ==
  ASSUME EdgeStreamInv, NEW w \in Incarnation, NEW sweep \in BOOLEAN
  PROVE  /\ ReadFirst(w, sweep) \in [Incarnation -> SUBSET Entry]
         /\ \A i \in Incarnation :
              LET S == ReadFirst(w, sweep)[i] IN
              /\ S # {} => i \in Streams(w)
              /\ S \subseteq Pending(i) \/ S = First(Unread(i))
              /\ S \subseteq queue[i]
<1>1. ASSUME NEW i \in Incarnation
      PROVE  /\ First(taken[i][w]) \subseteq Pending(i)
             /\ First(Pending(i)) \subseteq Pending(i)
             /\ First(Unread(i)) \subseteq Unread(i)
             /\ Pending(i) \subseteq queue[i] /\ Unread(i) \subseteq queue[i]
             /\ queue[i] \subseteq Entry
  <2>1. /\ taken[i][w] \subseteq Pending(i)
        /\ Pending(i) \subseteq queue[i] /\ Unread(i) \subseteq queue[i]
        /\ queue[i] \subseteq Entry
    BY Parts
  <2> QED BY <2>1, FirstOnes
<1>2. known[w] \subseteq Streams(w)
  BY DEF Streams
<1>3. \A S \in {known[w], Streams(w)} :
        /\ {Own(w, S), Claimed(S), Fresh(S)} \subseteq [Incarnation -> SUBSET Entry]
        /\ \A i \in Incarnation :
             /\ Own(w, S)[i] = IF i \in S THEN First(taken[i][w]) ELSE {}
             /\ Claimed(S)[i] = IF i \in S THEN First(Pending(i)) ELSE {}
             /\ Fresh(S)[i] = IF i \in S THEN First(Unread(i)) ELSE {}
  BY <1>1 DEF Own, Claimed, Fresh
<1>4. \A i \in Incarnation : \A S \in {known[w], Streams(w)} :
        /\ Own(w, S)[i] \subseteq Pending(i) /\ (Own(w, S)[i] # {} => i \in Streams(w))
        /\ Claimed(S)[i] \subseteq Pending(i) /\ (Claimed(S)[i] # {} => i \in Streams(w))
        /\ Fresh(S)[i] # {} => i \in Streams(w)
        /\ Fresh(S)[i] \subseteq Pending(i) \/ Fresh(S)[i] = First(Unread(i))
  BY <1>1, <1>2, <1>3
<1>5. \/ ReadFirst(w, sweep) = Own(w, known[w])
      \/ ReadFirst(w, sweep) = Claimed(known[w])
      \/ ReadFirst(w, sweep) = Own(w, Streams(w))
      \/ ReadFirst(w, sweep) = Fresh(Streams(w))
  BY ReadKinds, Zenon
<1>6. ReadFirst(w, sweep) \in [Incarnation -> SUBSET Entry]
  BY <1>3, <1>5
<1>7. \A i \in Incarnation :
        /\ ReadFirst(w, sweep)[i] # {} => i \in Streams(w)
        /\ ReadFirst(w, sweep)[i] \subseteq Pending(i) \/ ReadFirst(w, sweep)[i] = First(Unread(i))
  BY <1>4, <1>5
<1>8. \A i \in Incarnation : ReadFirst(w, sweep)[i] \subseteq queue[i]
  BY <1>1, <1>7
<1> QED BY <1>6, <1>7, <1>8

\* What one reading may take of a stream.
Reads(w, i, S) ==
  /\ lease[i] = w => Prefix(S, queue[i])
  /\ lease[i] # w => S \subseteq taken[i][w] \/ Unread(i) \subseteq S
  /\ \/ /\ S \subseteq taken[i][w]
        /\ i \in known[w] /\ lease[i] = w =>
             Prefix(taken[i][w], Pending(i)) /\ (Unread(i) = {} \/ OnlyTakenBy(i, w))
     \/ S = First(Pending(i)) /\ taken[i][w] = {} /\ i \in known[w]
     \/ /\ S = First(Unread(i)) /\ taken[i][w] = {}
        /\ Unread(i) \subseteq S \/ OnlyTakenBy(i, w)
        /\ lease[i] = w => OnlyTakenBy(i, w)

\* Every reading is one of those, unless it is counted.
LEMMA ReadReads ==
  ASSUME EdgeStreamInv, NEW w \in Incarnation, NEW sweep \in BOOLEAN, Read(w, sweep),
         NEW i \in Incarnation \ overtaken,
         i \notin PassesOver(w, sweep, ReadFirst(w, sweep))
  PROVE  Reads(w, i, ReadFirst(w, sweep)[i])
<1> DEFINE S == ReadFirst(w, sweep)[i]
           Holds == Prefix(taken[i][w], Pending(i)) /\ (Unread(i) = {} \/ OnlyTakenBy(i, w))
<1>1. /\ Pending(i) \subseteq queue[i] /\ Pending(i) \in SUBSET Entry
      /\ Unread(i) \in SUBSET Entry /\ taken[i][w] \in SUBSET Pending(i)
      /\ taken[i][w] \in SUBSET Entry
      /\ OnlyTakenBy(i, w) => Pending(i) = taken[i][w]
  BY Parts
<1>2. lease[i] # w => S \subseteq taken[i][w] \/ Unread(i) \subseteq S
  BY DEF PassesOver
<1>3. OnlyTakenBy(i, w) => Holds
  BY <1>1 DEF Prefix
<1>4. Pending(i) = {} => OnlyTakenBy(i, w)
  BY DEF Pending, OnlyTakenBy
<1>5. w \notin recovering /\ i \in Streams(w) => taken[i][w] = {}
  BY NoBatch DEF Read, Runs
<1>6. i = w /\ lease[i] = w => OnlyTakenBy(i, w)
  BY DEF EdgeStreamInv, OwnerInv, OnlyTakenBy
<1>7. i \in known[w] /\ lease[i] = w => w \in due \/ Holds
  BY DEF EdgeStreamInv, HolderInv
<1>8. i \in known[w] /\ w \in due => sweep
  BY DEF Read
<1>9. /\ Own(w, known[w])[i] = IF i \in known[w] THEN First(taken[i][w]) ELSE {}
      /\ Own(w, Streams(w))[i] = IF i \in Streams(w) THEN First(taken[i][w]) ELSE {}
      /\ Claimed(known[w])[i] = IF i \in known[w] THEN First(Pending(i)) ELSE {}
      /\ Fresh(Streams(w))[i] = IF i \in Streams(w) THEN First(Unread(i)) ELSE {}
  BY DEF Own, Claimed, Fresh
<1>10. /\ First(taken[i][w]) = taken[i][w] /\ (First(Pending(i)) = {} => Pending(i) = {})
       /\ Prefix(First(Pending(i)), queue[i])
       /\ OnlyTakenBy(i, w) => Prefix(taken[i][w], queue[i])
       /\ Holds => Prefix(taken[i][w], queue[i])
       /\ Pending(i) = {} => Prefix(First(Unread(i)), queue[i])
       /\ First(Unread(i)) # {} => Unread(i) # {}
       /\ Unread(i) = {} => First(Unread(i)) = {}
  <2>1. First(taken[i][w]) = taken[i][w]
    BY DEF EdgeStreamInv, SoleInv
  <2>2. First(Pending(i)) = {} => Pending(i) = {}
    BY <1>1, FirstOnes
  <2>3. First(Pending(i)) \in SUBSET Pending(i) /\ Prefix(First(Pending(i)), Pending(i))
    BY <1>1, FirstOnes DEF Prefix
  <2>4. Prefix(First(Pending(i)), queue[i])
    BY <2>3, PendingFirst
  <2>5. Holds => Prefix(taken[i][w], queue[i])
    BY <1>1, PendingFirst
  <2>6. Pending(i) = {} => Prefix(First(Unread(i)), queue[i])
    BY UnreadNext
  <2>7. First(Unread(i)) \subseteq Unread(i)
    BY <1>1, FirstOnes
  <2> QED BY <1>3, <2>1, <2>2, <2>4, <2>5, <2>6, <2>7
<1>11. Prefix({}, queue[i])
  BY DEF Prefix
<1>12. i \in Streams(w) <=> i \in known[w] \/ i = w
  BY DEF Streams
<1>13. /\ Own(w, known[w]) = NoEntries /\ i \in known[w] => taken[i][w] = {}
       /\ Claimed(known[w]) = NoEntries /\ i \in known[w] => Pending(i) = {}
  BY <1>9, <1>10, LoopTypes
<1>14. CASE sweep /\ ReadFirst(w, sweep) = Own(w, known[w]) /\ ReadFirst(w, sweep) # NoEntries
  <2>1. i \in known[w] => OnlyTakenBy(i, w)
    BY <1>14 DEF PassesOver
  <2>2. S = IF i \in known[w] THEN taken[i][w] ELSE {}
    BY <1>9, <1>10, <1>14
  <2>3. S \subseteq taken[i][w] /\ (i \in known[w] => Holds)
    BY <1>3, <2>1, <2>2
  <2>4. Prefix(S, queue[i])
    BY <1>10, <1>11, <2>1, <2>2
  <2> QED BY <1>2, <2>3, <2>4 DEF Reads
<1>15. CASE sweep /\ ReadFirst(w, sweep) = Claimed(known[w]) /\ Own(w, known[w]) = NoEntries
  <2>1. S = IF i \in known[w] THEN First(Pending(i)) ELSE {}
    BY <1>9, <1>15
  <2>2. i \in known[w] => taken[i][w] = {}
    BY <1>13, <1>15
  <2>3. Prefix(S, queue[i])
    BY <1>10, <1>11, <2>1
  <2> QED BY <1>2, <2>1, <2>2, <2>3 DEF Reads
<1>16. ASSUME sweep => Own(w, known[w]) = NoEntries /\ Claimed(known[w]) = NoEntries
       PROVE  i \in Streams(w) /\ lease[i] = w => Holds /\ (i \notin known[w] => OnlyTakenBy(i, w))
  <2>1. i \in known[w] /\ sweep => Pending(i) = {}
    BY <1>13, <1>16
  <2> QED BY <1>3, <1>4, <1>6, <1>7, <1>8, <1>12, <2>1
<1>17. CASE /\ sweep => Own(w, known[w]) = NoEntries /\ Claimed(known[w]) = NoEntries
            /\ ReadFirst(w, sweep) = Own(w, Streams(w))
  <2>1. S = IF i \in Streams(w) THEN taken[i][w] ELSE {}
    BY <1>9, <1>10, <1>17
  <2>2. i \in Streams(w) /\ lease[i] = w => Holds
    BY <1>16, <1>17
  <2>3. lease[i] = w => Prefix(S, queue[i])
    BY <1>10, <1>11, <2>1, <2>2
  <2>4. S \subseteq taken[i][w] /\ (i \in known[w] /\ lease[i] = w => Holds)
    BY <1>12, <2>1, <2>2
  <2> QED BY <1>2, <2>3, <2>4 DEF Reads
<1>18. CASE /\ sweep => Own(w, known[w]) = NoEntries /\ Claimed(known[w]) = NoEntries
            /\ w \notin recovering /\ ReadFirst(w, sweep) = Fresh(Streams(w))
  <2>1. S = IF i \in Streams(w) THEN First(Unread(i)) ELSE {}
    BY <1>9, <1>18
  <2>2. /\ i \in Streams(w) /\ lease[i] = w => Holds
        /\ i \in Streams(w) /\ lease[i] = w /\ i \notin known[w] => OnlyTakenBy(i, w)
    BY <1>16, <1>18
  <2>3. CASE S = {}
    <3>1. S \subseteq taken[i][w] /\ (i \in known[w] /\ lease[i] = w => Holds)
      BY <1>12, <2>2, <2>3
    <3> QED BY <1>2, <1>11, <2>3, <3>1 DEF Reads
  <2>4. CASE S # {}
    <3>1. /\ i \in Streams(w) /\ S = First(Unread(i)) /\ Unread(i) # {}
          /\ taken[i][w] = {}
      BY <1>5, <1>10, <1>18, <2>1, <2>4
    <3>2. lease[i] = w => OnlyTakenBy(i, w)
      BY <1>12, <2>2, <3>1
    <3>3. Unread(i) \subseteq S \/ OnlyTakenBy(i, w)
      BY <1>2, <2>4, <3>1, <3>2
    <3>4. lease[i] = w => Prefix(S, queue[i])
      BY <1>1, <1>10, <3>1, <3>2
    <3> QED BY <1>2, <3>1, <3>2, <3>3, <3>4 DEF Reads
  <2> QED BY <2>3, <2>4
<1> HIDE DEF S, Holds
<1> QED
  <2>1. \/ sweep /\ ReadFirst(w, sweep) = Own(w, known[w]) /\ ReadFirst(w, sweep) # NoEntries
        \/ sweep /\ ReadFirst(w, sweep) = Claimed(known[w]) /\ Own(w, known[w]) = NoEntries
        \/ /\ sweep => Own(w, known[w]) = NoEntries /\ Claimed(known[w]) = NoEntries
           /\ ReadFirst(w, sweep) = Own(w, Streams(w))
        \/ /\ sweep => Own(w, known[w]) = NoEntries /\ Claimed(known[w]) = NoEntries
           /\ w \notin recovering /\ ReadFirst(w, sweep) = Fresh(Streams(w))
    BY ReadKinds, Zenon
  <2> QED BY <1>14, <1>15, <1>17, <1>18, <2>1, Zenon DEF S

\* A worker that finds nothing has read all that is pending for it, and after a
\* sweep all that is pending for others.
LEMMA IdleStep ==
  ASSUME EdgeStreamInv, NEW w \in Incarnation, NEW sweep \in BOOLEAN, Read(w, sweep),
         ReadFirst(w, sweep) = NoEntries
  PROVE  EdgeStreamInv'
<1>1. /\ UNCHANGED <<queue, here, grouped, lease, state, known, held, gone,
                     accepted, projected, faults, taken, overtaken>>
      /\ due' = due \ {w} /\ recovering' = recovering \ {w} /\ LoopGoes(w, "idle")
      /\ state[w] = "up" /\ loop[w].at = "look"
      /\ \A i \in Incarnation : w \in due /\ i \in known[w] => sweep
  BY DEF Read, Runs
<1>2. ASSUME NEW i \in Incarnation
      PROVE  /\ First(taken[i][w]) = {} => taken[i][w] = {}
             /\ First(Pending(i)) = {} => Pending(i) = {}
  <2>1. Pending(i) \in SUBSET Entry /\ taken[i][w] \in SUBSET Entry
    BY Parts
  <2> QED BY <2>1, FirstOnes
<1>3. /\ Own(w, Streams(w)) = NoEntries
      /\ sweep => Claimed(known[w]) = NoEntries
  <2>1. CASE sweep = TRUE
    BY ONLY <2>1, ReadFirst(w, sweep) = NoEntries, Zenon DEF ReadFirst, OrElse
  <2>2. CASE sweep = FALSE
    BY ONLY <2>2, ReadFirst(w, sweep) = NoEntries, Zenon DEF ReadFirst, OrElse
  <2> QED BY <2>1, <2>2
<1>4. \A i \in Streams(w) : i \in Incarnation /\ taken[i][w] = {}
  <2>1. \A i \in Streams(w) : i \in Incarnation
    BY DEF Streams, EdgeStreamInv, EdgeStreamTypeOK
  <2>2. \A i \in Streams(w) : First(taken[i][w]) = {}
    BY <1>3, <2>1, LoopTypes DEF Own
  <2> QED BY <1>2, <2>1, <2>2
<1>5. \A i \in known[w] : sweep => OnlyTakenBy(i, w)
  <2>1. \A i \in known[w] : i \in Incarnation
    BY DEF EdgeStreamInv, EdgeStreamTypeOK
  <2>2. \A i \in known[w] : sweep => First(Pending(i)) = {}
    BY <1>3, <2>1, LoopTypes DEF Claimed
  <2>3. \A i \in known[w] : sweep => Pending(i) = {}
    BY <1>2, <2>1, <2>2
  <2> QED BY <2>1, <2>3 DEF Pending, OnlyTakenBy
<1>6. EdgeStreamTypeOK'
  BY <1>1 DEF EdgeStreamInv, EdgeStreamTypeOK
<1>7. /\ loop' \in [Incarnation -> LoopType] /\ loop'[w].batch = NoEntries
      /\ loop'[w].at = "idle" /\ \A v \in Incarnation \ {w} : loop'[v] = loop[v]
  BY <1>1, LoopRests
<1>8. Quiet
  BY <1>1, <1>7 DEF Quiet
<1>9. QuietLeases
  BY <1>1, <1>7 DEF QuietLeases, EdgeStreamInv, OwnerInv
<1>10. QuietReads
  BY <1>1, <1>4, <1>5, <1>7 DEF QuietReads, Streams
<1> QED BY <1>6, <1>8, <1>9, <1>10, QuietStep

LEMMA BatchStep ==
  ASSUME EdgeStreamInv, NEW w \in Incarnation, NEW sweep \in BOOLEAN, Read(w, sweep),
         ReadFirst(w, sweep) # NoEntries
  PROVE  EdgeStreamInv'
<1>1. PICK b \in [Incarnation -> SUBSET Entry] : b = ReadFirst(w, sweep)
  BY ReadTypes
<1>2. PICK P \in SUBSET Incarnation : P = PassesOver(w, sweep, b)
  BY DEF PassesOver
<1>3. /\ UNCHANGED <<queue, here, grouped, lease, state, known, held, gone,
                     accepted, projected, faults, recovering>>
      /\ due' = due \ {w} /\ overtaken' = overtaken \cup P
      /\ Take(w, b) /\ LoopIs(w, Loop("work", NoWorker, b))
      /\ state[w] = "up" /\ loop[w].at = "look"
  BY <1>1, <1>2 DEF Read, Runs
<1>4. ASSUME NEW i \in Incarnation
      PROVE  /\ b[i] # {} => i \in Streams(w)
             /\ b[i] \subseteq Pending(i) \/ b[i] = First(Unread(i))
             /\ b[i] \subseteq queue[i]
  BY <1>1, ReadTypes
<1>5. \A i \in Incarnation \ overtaken' : Reads(w, i, b[i])
  BY <1>1, <1>2, <1>3, ReadReads
<1>6. \A i \in Streams(w) : i \in Incarnation
  BY DEF Streams, EdgeStreamInv, EdgeStreamTypeOK
<1>7. /\ taken \in [Incarnation -> [Incarnation -> SUBSET Entry]]
      /\ \A i \in Incarnation : taken[i][w] \subseteq queue[i]
  BY DEF EdgeStreamInv, EdgeStreamTypeOK
<1>8. /\ taken' \in [Incarnation -> [Incarnation -> SUBSET Entry]]
      /\ \A i \in Incarnation : taken'[i][w] = taken[i][w] \cup b[i]
      /\ \A i \in Incarnation : \A v \in Incarnation \ {w} : taken'[i][v] = taken[i][v] \ b[i]
  BY <1>3, <1>7 DEF Take
<1>9. \A i \in Incarnation : Pending(i)' = Pending(i) \cup b[i] /\ Unread(i)' = Unread(i) \ b[i]
  <2>1. \A i \in Incarnation : Pending(i)' = Pending(i) \cup b[i]
    BY <1>8 DEF Pending
  <2> QED BY <1>3, <2>1 DEF Unread
<1>10. /\ loop' \in [Incarnation -> LoopType] /\ loop'[w].at = "work"
       /\ loop'[w].batch = b /\ \A v \in Incarnation \ {w} : loop'[v] = loop[v]
  <2>1. "work" \in Stage
    BY DEF Stage
  <2> QED BY <1>3, <2>1, LoopMoves, LoopTypes
<1>11. EdgeStreamTypeOK'
  <2>1. \A i, v \in Incarnation : taken'[i][v] \subseteq queue'[i]
    <3> SUFFICES ASSUME NEW i \in Incarnation, NEW v \in Incarnation
                 PROVE  taken'[i][v] \subseteq queue[i]
      BY <1>3
    <3>1. taken[i][v] \subseteq queue[i] /\ b[i] \subseteq queue[i]
      BY <1>4 DEF EdgeStreamInv, EdgeStreamTypeOK
    <3> QED BY <1>8, <3>1
  <2>2. overtaken' \subseteq Incarnation /\ due' \subseteq Incarnation
    BY <1>3 DEF EdgeStreamInv, EdgeStreamTypeOK
  <2> QED BY <1>3, <1>8, <2>1, <2>2 DEF EdgeStreamInv, EdgeStreamTypeOK
<1>12. NothingLost' /\ InOrder'
  BY <1>3 DEF EdgeStreamInv, NothingLost, InOrder
<1>13. LoopInv'
  <2>1. ASSUME NEW v \in Incarnation
        PROVE  /\ loop'[v].at \in {"start", "look", "adopt", "idle"} => loop'[v].batch = NoEntries
               /\ loop'[v].at \in {"adopt", "project", "acknowledge"} => loop'[v].on \in Incarnation
               /\ loop'[v].at = "acknowledge" => loop'[v].batch[loop'[v].on] \subseteq projected'
    <3>1. CASE v = w
      BY <1>10, <3>1
    <3>2. CASE v # w
      BY <1>3, <1>10, <3>2 DEF EdgeStreamInv, LoopInv
    <3> QED BY <3>1, <3>2
  <2>2. NoEntries' = NoEntries
    BY DEF NoEntries
  <2> QED BY <1>10, <2>1, <2>2 DEF LoopInv
<1>14. NumberInv'
  <2>1. AcceptedBy(Incarnation)' = AcceptedBy(Incarnation)
    BY <1>3 DEF AcceptedBy
  <2>2. \A v, i \in Incarnation : loop'[v].batch[i] \subseteq accepted[i]
    <3> SUFFICES ASSUME NEW v \in Incarnation, NEW i \in Incarnation
                 PROVE  loop'[v].batch[i] \subseteq accepted[i]
      OBVIOUS
    <3>1. b[i] \subseteq accepted[i]
      BY <1>4, Parts
    <3> QED BY <1>10, <3>1 DEF EdgeStreamInv, NumberInv
  <2>3. ASSUME NEW i \in Incarnation, NEW e \in Pending(i)', NEW f \in Unread(i)'
        PROVE  e < f
    <3>1. f \in Unread(i) /\ f \notin b[i] /\ (e \in Pending(i) \/ e \in b[i])
      BY <1>9, <2>3
    <3>2. CASE e \in Pending(i)
      BY <3>1, <3>2 DEF EdgeStreamInv, NumberInv
    <3>3. CASE e \notin Pending(i)
      <4>1. e \in First(Unread(i)) /\ f \notin First(Unread(i))
        BY <1>4, <3>1, <3>3
      <4>2. Unread(i) \in SUBSET Entry
        BY Parts
      <4>3. e \in Unread(i) /\ ~(f < e)
        BY <3>1, <4>1, <4>2, FirstOnes
      <4>4. e # f /\ e \in Int /\ f \in Int
        BY <3>1, <4>1, <4>2, <4>3 DEF Entry
      <4> QED BY <4>3, <4>4
    <3> QED BY <3>2, <3>3
  <2>4. ASSUME NEW i \in Incarnation, NEW v \in Incarnation, NEW u \in Incarnation, v # u
        PROVE  taken'[i][v] \cap taken'[i][u] = {}
    <3>1. \A e \in taken[i][v] : e \notin taken[i][u]
      BY <2>4 DEF EdgeStreamInv, NumberInv
    <3>2. \A x \in Incarnation : \A e :
            e \in taken'[i][x] => IF x = w THEN e \in taken[i][x] \/ e \in b[i]
                                 ELSE e \in taken[i][x] /\ e \notin b[i]
      BY <1>8
    <3> QED BY <2>4, <3>1, <3>2
  <2> QED BY <1>3, <2>1, <2>2, <2>3, <2>4 DEF EdgeStreamInv, NumberInv
<1>15. OwnerInv'
  <2>1. \A v \in Incarnation : state[v] = "new" => loop'[v].batch = loop[v].batch
    BY <1>3, <1>10
  <2>2. NoEntries' = NoEntries
    BY DEF NoEntries
  <2>3. ASSUME NEW i \in Incarnation, state[i] = "new" \/ lease[i] = i,
               NEW v \in Incarnation \ {i}
        PROVE  i \notin known[v] /\ taken'[i][v] = {}
    <3>1. i \notin known[v] /\ taken[i][v] = {}
      BY <2>3 DEF EdgeStreamInv, OwnerInv
    <3>2. v = w => b[i] = {}
      BY <1>4, <3>1 DEF Streams
    <3> QED BY <1>8, <3>1, <3>2
  <2> QED BY <1>3, <2>1, <2>2, <2>3 DEF EdgeStreamInv, OwnerInv
<1>16. ReadInv'
  <2> SUFFICES ASSUME NEW v \in Incarnation, NEW i \in Streams(v) \ overtaken',
                      state[v] = "up", v \notin recovering
               PROVE  taken'[i][v] \subseteq loop'[v].batch[i]
    BY <1>3 DEF ReadInv, Streams
  <2>1. i \in Incarnation /\ i \notin overtaken
    BY <1>3 DEF Streams, EdgeStreamInv, EdgeStreamTypeOK
  <2>2. CASE v = w
    <3>1. taken[i][w] = {}
      BY <1>3, <2>1, <2>2, NoBatch
    <3> QED BY <1>8, <1>10, <2>1, <2>2, <3>1
  <2>3. CASE v # w
    <3>1. taken[i][v] \subseteq loop[v].batch[i]
      BY <2>1 DEF EdgeStreamInv, ReadInv
    <3> QED BY <1>8, <1>10, <2>1, <2>3, <3>1
  <2> QED BY <2>2, <2>3
<1>17. ASSUME NEW i \in Incarnation \ overtaken'
       PROVE  /\ i \notin overtaken
              /\ Pending(i) \subseteq queue[i] /\ Pending(i) \in SUBSET Entry
              /\ Unread(i) \in SUBSET Entry /\ Pending(i) \cap Unread(i) = {}
              /\ First(Pending(i)) \subseteq Pending(i) /\ First(Unread(i)) \subseteq Unread(i)
              /\ \A v \in Incarnation : /\ taken[i][v] \in SUBSET Pending(i)
                                        /\ First(taken[i][v]) = taken[i][v]
              /\ \A v \in Incarnation : OnlyTakenBy(i, v) => Pending(i) = taken[i][v]
  <2>1. i \notin overtaken
    BY <1>3
  <2>2. /\ Pending(i) \subseteq queue[i] /\ Pending(i) \in SUBSET Entry
        /\ Unread(i) \in SUBSET Entry /\ Pending(i) \cap Unread(i) = {}
    BY Parts DEF Unread
  <2>3. First(Pending(i)) \subseteq Pending(i) /\ First(Unread(i)) \subseteq Unread(i)
    BY <2>2, FirstOnes
  <2>4. \A v \in Incarnation : First(taken[i][v]) = taken[i][v]
    BY <2>1 DEF EdgeStreamInv, SoleInv
  <2> QED BY <2>1, <2>2, <2>3, <2>4, Parts
<1>18. ASSUME NEW i \in Incarnation \ overtaken'
       PROVE  /\ b[i] \subseteq taken[i][w] => /\ taken'[i][w] = taken[i][w]
                                             /\ Pending(i)' = Pending(i)
              /\ taken[i][w] = {} => taken'[i][w] = b[i]
              /\ b[i] \subseteq Pending(i) => Pending(i)' = Pending(i)
              /\ Pending(i) = {} => Pending(i)' = b[i]
              /\ \A v \in Incarnation \ {w} :
                   b[i] \cap taken[i][v] = {} => taken'[i][v] = taken[i][v]
  <2>1. taken[i][w] \subseteq Pending(i)
    BY Parts
  <2>2. taken'[i][w] = taken[i][w] \cup b[i] /\ Pending(i)' = Pending(i) \cup b[i]
    BY <1>8, <1>9
  <2>3. b[i] \subseteq Pending(i) => Pending(i)' = Pending(i)
    BY <2>2
  <2>4. b[i] \subseteq taken[i][w] => taken'[i][w] = taken[i][w]
    BY <2>2
  <2>5. /\ taken[i][w] = {} => taken'[i][w] = b[i]
        /\ Pending(i) = {} => Pending(i)' = b[i]
    BY <2>2
  <2>6. ASSUME NEW v \in Incarnation \ {w}, b[i] \cap taken[i][v] = {}
        PROVE  taken'[i][v] = taken[i][v]
    <3>1. taken'[i][v] = taken[i][v] \ b[i]
      BY <1>8
    <3> QED BY <2>6, <3>1
  <2> QED BY <2>1, <2>3, <2>4, <2>5, <2>6
<1>19. SoleInv'
  <2>1. ASSUME NEW i \in Incarnation \ overtaken', NEW v \in Incarnation
        PROVE  First(taken[i][v])' = taken'[i][v]
    <3>1. First(taken[i][v])' = First(taken'[i][v])
      BY DEF First
    <3>2. CASE taken'[i][v] \in SUBSET taken[i][v]
      BY <1>17, <3>1, <3>2, FirstOfPart
    <3>3. CASE taken'[i][v] \notin SUBSET taken[i][v]
      <4>1. v = w /\ ~(b[i] \subseteq taken[i][w])
        BY <1>8, <3>3
      <4>2. \/ taken'[i][v] = First(Pending(i))
            \/ taken'[i][v] = First(Unread(i))
        BY <1>5, <1>8, <4>1 DEF Reads
      <4> QED BY <1>17, <3>1, <4>2, FirstOnes
    <3> QED BY <3>2, <3>3
  <2>2. ASSUME NEW i \in Incarnation \ overtaken', Unread(i)' # {},
               NEW v \in Incarnation, NEW u \in Incarnation
        PROVE  taken'[i][v] = {} \/ taken'[i][u] = {} \/ v = u
    <3>1. Unread(i) # {} /\ ~(Unread(i) \subseteq b[i])
      BY <1>9, <2>2
    <3>2. \A x, y \in Incarnation : taken[i][x] = {} \/ taken[i][y] = {} \/ x = y
      BY <1>17, <3>1 DEF EdgeStreamInv, SoleInv
    <3>3. CASE b[i] \subseteq taken[i][w]
      <4>1. \A x \in Incarnation : taken'[i][x] \subseteq taken[i][x]
        BY <1>8, <3>3
      <4> QED BY <3>2, <4>1
    <3>4. CASE b[i] = First(Pending(i)) /\ taken[i][w] = {}
      <4>1. First(Pending(i)) = Pending(i)
        <5>1. CASE Pending(i) = {}
          <6>1. First(Pending(i)) \subseteq Pending(i)
            BY <1>17
          <6> QED BY <5>1, <6>1
        <5>2. CASE Pending(i) # {}
          <6>1. PICK x \in Incarnation : taken[i][x] # {}
            BY <5>2 DEF Pending
          <6>2. OnlyTakenBy(i, x)
            BY <3>2, <6>1 DEF OnlyTakenBy
          <6> QED BY <1>17, <6>2
        <5> QED BY <5>1, <5>2
      <4>2. \A x \in Incarnation \ {w} : taken'[i][x] = {}
        BY <1>8, <1>17, <3>4, <4>1
      <4> QED BY <4>2
    <3>5. CASE /\ b[i] = First(Unread(i)) /\ taken[i][w] = {}
               /\ Unread(i) \subseteq b[i] \/ OnlyTakenBy(i, w)
      <4>1. \A x \in Incarnation \ {w} : taken[i][x] = {}
        BY <3>1, <3>5 DEF OnlyTakenBy
      <4>2. \A x \in Incarnation \ {w} : taken'[i][x] = {}
        BY <1>8, <4>1
      <4> QED BY <4>2
    <3> QED BY <1>5, <3>3, <3>4, <3>5 DEF Reads
  <2> QED BY <2>1, <2>2 DEF SoleInv
<1>20. HolderInv'
  <2> SUFFICES ASSUME NEW v \in Incarnation, NEW i \in Incarnation \ overtaken',
                      i \in known[v], lease[i] = v, v = w \/ v \notin due
               PROVE  /\ Prefix(taken'[i][v], Pending(i)')
                      /\ Unread(i)' = {} \/ OnlyTakenBy(i, v)'
    <3>1. \A u \in Incarnation : known[u] \subseteq Incarnation
      BY DEF EdgeStreamInv, EdgeStreamTypeOK
    <3> QED BY <1>3, <3>1 DEF HolderInv, Prefix
  <2>1. CASE v = w
    <3>1. CASE b[i] \subseteq taken[i][w] /\ Prefix(taken[i][w], Pending(i))
               /\ (Unread(i) = {} \/ OnlyTakenBy(i, w))
      <4>1. taken'[i][w] = taken[i][w] /\ Pending(i)' = Pending(i)
        BY <1>18, <3>1
      <4>2. OnlyTakenBy(i, w) => OnlyTakenBy(i, w)'
        BY <1>8 DEF OnlyTakenBy
      <4> QED BY <1>9, <2>1, <3>1, <4>1, <4>2
    <3>2. CASE b[i] = First(Pending(i)) /\ taken[i][w] = {}
      <4>1. taken'[i][w] = First(Pending(i)) /\ Pending(i)' = Pending(i)
        BY <1>17, <1>18, <3>2
      <4>2. Prefix(First(Pending(i)), Pending(i))
        BY <1>17, FirstOnes DEF Prefix
      <4>3. ASSUME Unread(i)' # {}
            PROVE  OnlyTakenBy(i, w)'
        <5>1. Unread(i) # {}
          BY <1>9, <4>3
        <5>2. \A x, y \in Incarnation : taken'[i][x] = {} \/ taken'[i][y] = {} \/ x = y
          BY <1>19, <4>3 DEF SoleInv
        <5>3. CASE Pending(i) = {}
          BY <1>8, <1>17, <5>3 DEF OnlyTakenBy
        <5>4. CASE Pending(i) # {}
          <6>1. taken'[i][w] # {}
            BY <1>17, <4>1, <5>4, FirstOnes
          <6> QED BY <5>2, <6>1 DEF OnlyTakenBy
        <5> QED BY <5>3, <5>4
      <4> QED BY <2>1, <4>1, <4>2, <4>3
    <3>3. CASE b[i] = First(Unread(i)) /\ taken[i][w] = {} /\ OnlyTakenBy(i, w)
      <4>1. OnlyTakenBy(i, w)'
        BY <1>8, <3>3 DEF OnlyTakenBy
      <4>2. Pending(i)' = b[i] /\ taken'[i][w] = b[i]
        <5>1. Pending(i) = {}
          BY <1>17, <3>3
        <5> QED BY <1>18, <3>3, <5>1
      <4> QED BY <2>1, <4>1, <4>2 DEF Prefix
    <3> QED BY <1>5, <2>1, <3>1, <3>2, <3>3 DEF Reads
  <2>2. CASE v # w
    <3>1. /\ Prefix(taken[i][v], Pending(i)) /\ (Unread(i) = {} \/ OnlyTakenBy(i, v))
          /\ i \notin overtaken /\ lease[i] # w
      BY <1>17, <2>2 DEF EdgeStreamInv, HolderInv
    <3>2. CASE b[i] \subseteq taken[i][w]
      <4>1. taken[i][v] \cap taken[i][w] = {}
        BY <2>2 DEF EdgeStreamInv, NumberInv
      <4>2. taken'[i][v] = taken[i][v] /\ Pending(i)' = Pending(i)
        <5>1. b[i] \cap taken[i][v] = {}
          BY <3>2, <4>1
        <5> QED BY <1>18, <2>2, <3>2, <5>1
      <4>3. OnlyTakenBy(i, v) => OnlyTakenBy(i, v)'
        <5>1. taken'[i][w] = taken[i][w]
          BY <1>18, <3>2
        <5>2. \A x \in Incarnation : taken[i][x] = {} => taken'[i][x] = {}
          BY <1>8, <5>1, SMTT(40)
        <5> QED BY <5>2 DEF OnlyTakenBy
      <4> QED BY <1>9, <3>1, <4>2, <4>3
    <3>3. CASE Unread(i) \subseteq b[i]
      <4>1. Unread(i)' = {}
        BY <1>9, <3>3
      <4>2. CASE b[i] \subseteq taken[i][w]
        BY <3>2, <4>2
      <4>3. CASE b[i] = First(Pending(i)) /\ taken[i][w] = {}
        <5>1. taken[i][v] \subseteq First(Pending(i))
          BY <1>17, <3>1, FirstOfPrefix
        <5>2. taken'[i][v] = {}
          BY <1>8, <2>2, <4>3, <5>1
        <5> QED BY <4>1, <5>2 DEF Prefix
      <4>4. CASE b[i] = First(Unread(i)) /\ taken[i][w] = {}
        <5>1. taken'[i][v] = taken[i][v]
          <6>1. b[i] \subseteq Unread(i) /\ taken[i][v] \subseteq Pending(i)
                /\ Pending(i) \cap Unread(i) = {}
            BY <1>17, <4>4
          <6>2. b[i] \cap taken[i][v] = {}
            BY <6>1
          <6> QED BY <1>18, <2>2, <6>2
        <5>2. ASSUME NEW e \in Pending(i)', NEW f \in taken[i][v], e < f
              PROVE  e \in taken[i][v]
          <6>1. e \in Pending(i) \/ e \in Unread(i)
            BY <1>9, <1>17, <4>4, <5>2
          <6>2. CASE e \in Pending(i)
            BY <3>1, <5>2, <6>2 DEF Prefix
          <6>3. CASE e \in Unread(i)
            <7>1. f \in Pending(i)
              BY <1>17
            <7>2. f < e
              BY <6>3, <7>1 DEF EdgeStreamInv, NumberInv
            <7>3. e \in Int /\ f \in Int
              BY <1>17, <6>3, <7>1 DEF Entry
            <7> QED BY <5>2, <7>2, <7>3
          <6> QED BY <6>1, <6>2, <6>3
        <5> QED BY <4>1, <5>1, <5>2 DEF Prefix
      <4> QED BY <1>5, <4>2, <4>3, <4>4 DEF Reads
    <3> QED BY <1>5, <3>1, <3>2, <3>3 DEF Reads
  <2> QED BY <2>1, <2>2
<1>21. ClosedInv'
  <2> SUFFICES ASSUME NEW v \in Incarnation, NEW i \in Incarnation \ overtaken',
                      lease[i] = v \/ (loop'[v].at = "project" /\ loop'[v].on = i)
               PROVE  Closed(loop'[v].batch[i], i)
    BY <1>3 DEF ClosedInv, Closed
  <2>1. CASE v = w
    <3>1. lease[i] = w
      BY <1>10, <2>1
    <3>2. Prefix(b[i], queue[i])
      BY <1>5, <3>1 DEF Reads
    <3> QED BY <1>10, <2>1, <3>2, PrefixIsClosed
  <2>2. CASE v # w
    <3>1. loop'[v] = loop[v]
      BY <1>10, <2>2
    <3> QED BY <1>17, <3>1 DEF EdgeStreamInv, ClosedInv
  <2> QED BY <2>1, <2>2
<1> QED BY <1>11, <1>12, <1>13, <1>14, <1>15, <1>16, <1>19, <1>20, <1>21
        DEF EdgeStreamInv

----------------------------------------------------------------------------
(* The streams of what nodes send: the theorem                             *)

LEMMA EdgeStreamStutter ==
  ASSUME EdgeStreamInv, UNCHANGED edgeStreamVars
  PROVE  EdgeStreamInv'
<1>1. UNCHANGED <<queue, here, grouped, taken, lease, state, loop, known, held, gone,
                  recovering, due, accepted, projected, overtaken, faults>>
  BY DEF edgeStreamVars, streamVars, workerVars
<1>2. EdgeStreamTypeOK'
  BY <1>1 DEF EdgeStreamInv, EdgeStreamTypeOK
<1>3. Quiet
  BY <1>1 DEF Quiet, EdgeStreamInv, LoopInv
<1>4. QuietLeases
  BY <1>1 DEF QuietLeases, EdgeStreamInv, OwnerInv
<1>5. QuietReads
  BY <1>1 DEF QuietReads, Streams
<1> QED BY <1>2, <1>3, <1>4, <1>5, QuietStep

LEMMA EdgeStreamNext == ASSUME EdgeStreamInv, NextEdgeStreams PROVE EdgeStreamInv'
<1>1. PICK w \in Incarnation :
        \/ Start(w) \/ AcceptMessage(w) \/ LoopStep(w) \/ Beat(w)
        \/ TimePasses(w) \/ LoopStops(w) \/ WorkerDies(w) \/ ExpireLease(w)
  BY DEF NextEdgeStreams
<1>2. CASE LoopStep(w)
  <2>1. CASE BeginPass(w) \/ Adopt(w) \/ ReadFails(w) \/ Wait(w)
    BY <2>1, PassStep, AdoptStep, ReadFailsStep
  <2>2. CASE ProjectBatch(w) \/ AcknowledgeBatch(w)
    BY <2>2, ProjectStep, AcknowledgeStep
  <2>3. ASSUME NEW sweep \in BOOLEAN, Read(w, sweep)
        PROVE  EdgeStreamInv'
    <3>1. CASE ReadFirst(w, sweep) = NoEntries
      BY <2>3, <3>1, IdleStep
    <3>2. CASE ReadFirst(w, sweep) # NoEntries
      BY <2>3, <3>2, BatchStep
    <3> QED BY <3>1, <3>2
  <2>4. ASSUME NEW i \in Incarnation, Discover(w, i) \/ EraseDead(w, i) \/ CheckLease(w, i)
        PROVE  EdgeStreamInv'
    BY <2>4, DiscoverStep, EraseStep, CheckStep
  <2> QED BY <1>2, <2>1, <2>2, <2>3, <2>4, Zenon DEF LoopStep
<1>3. CASE Beat(w)
  BY <1>3, BeatStep, LeaveStep DEF Beat
<1>4. CASE Start(w) \/ AcceptMessage(w) \/ TimePasses(w) \/ ExpireLease(w)
  BY <1>4, StartStep, AcceptStep, TimeStep, ExpireStep
<1>5. CASE LoopStops(w) \/ WorkerDies(w)
  BY <1>5, LeaveStep
<1> QED BY <1>1, <1>2, <1>3, <1>4, <1>5

\* What a node has been told is accepted is never lost, and messages of a stream
\* are first projected in the order they were accepted in unless a loop has
\* passed over pending entries of another: for any number of workers, streams of
\* any length, readings of any size, and faults in any order.
THEOREM EdgeStreamsAreSafe == SpecEdgeStreams => []EdgeStreamSafety
<1>1. InitEdgeStreams => EdgeStreamInv
  BY EdgeStreamInit
<1>2. EdgeStreamInv /\ [NextEdgeStreams]_edgeStreamVars => EdgeStreamInv'
  BY EdgeStreamStutter, EdgeStreamNext
<1>3. EdgeStreamInv => EdgeStreamSafety
  BY DEF EdgeStreamInv, EdgeStreamSafety
<1> QED BY <1>1, <1>2, <1>3, PTL DEF SpecEdgeStreams

----------------------------------------------------------------------------
(***************************************************************************)
(* The configuration of a node.  Its types, when every revision there is   *)
(* comes from R.                                                           *)
(***************************************************************************)

JobStage == {"none", "choose", "raise", "look", "build", "unsupported",
             "rejected", "claim", "record", "queue", "notify"}
RowState == {"idle", "pending", "applied", "rejected", "unsupported"}
OfKind(K, R) == [kind : K, rev : R, content : 0 .. MaxEdits]
WireOf(R) == OfKind({"begin", "commit"}, R)
HeldOf(R) == WireOf(R) \cup {NoWire}
AnswerOf(R) == OfKind({"applied", "rejected"}, R) \cup {NoWire}
RestOf(R) == OfKind({"hello", "applied", "rejected"}, R) \cup {NoWire}
MessageOf(R) == OfKind({"hello", "report", "beat", "applied", "rejected"}, R)
JobOf(R) == [at : JobStage, rev : R, content : 0 .. MaxEdits,
             state : RowState \cup {"none"}]
UplinkOf(R) ==
  [state : {"new", "hello", "claim", "greet", "open", "failed", "closed"},
   seen : BOOLEAN, flush : BOOLEAN, hand : HeldOf(R), rest : RestOf(R)]

ChangeTypes(R) ==
  /\ content \in 0 .. MaxEdits /\ clock \in 1 .. Larger(1, MaxClock)
  /\ recorded \subseteq R /\ supported \in BOOLEAN
StatusTypes(R) == config \in [desired : R, active : R, state : RowState]
QueueTypes(R) == wires \in Seq(WireOf(R)) /\ fence \in R
UplinkTypes(R) == uplink \in [Session -> UplinkOf(R)]
IngressTypes(R) == incoming \in [Session -> Seq(MessageOf(R))]
KeyTypes == holder \in Session \cup {NoSession} /\ link \in Session \cup {NoSession}
NodeTypes(R) ==
  /\ staged \in HeldOf(R) /\ answer \in AnswerOf(R)
  /\ installed \in [rev : R, content : 0 .. MaxEdits]
JobTypes(R) == job \in [Builder -> JobOf(R)]
PastTypes ==
  /\ promised \in [Revision -> 0 .. MaxEdits] /\ lowered \in BOOLEAN
  /\ claimant \in Session \cup {NoSession}
  /\ returned \subseteq Session /\ losses \in 0 .. MaxLosses
ConfigTypes(R) ==
  /\ ChangeTypes(R) /\ StatusTypes(R) /\ QueueTypes(R) /\ UplinkTypes(R)
  /\ IngressTypes(R) /\ KeyTypes /\ NodeTypes(R) /\ JobTypes(R) /\ PastTypes


LEMMA Builders ==
  /\ Editor \subseteq Builder /\ Replayer \subseteq Builder
  /\ Session \subseteq Replayer /\ Session \subseteq Builder /\ NoSession \notin Session
  /\ \A s \in Session : Projector(s) \in Replayer
BY DEF Builder, Replayer, Session, Projector, NoSession

LEMMA NoWireTypes ==
  ASSUME NEW R, 0 \in R
  PROVE  /\ NoWire \in HeldOf(R) /\ NoWire \in AnswerOf(R) /\ NoWire \in RestOf(R)
         /\ WireOf(R) \subseteq HeldOf(R) /\ AnswerOf(R) \subseteq RestOf(R)
BY DEF HeldOf, AnswerOf, RestOf, OfKind

\* What the parts of a step make of sessions and jobs.
LEMMA UplinkParts ==
  ASSUME NEW R, 0 \in R, UplinkTypes(R), NEW s \in Session
  PROVE  /\ Flushed(s) \in [Session -> UplinkOf(R)]
         /\ Becomes(s, "failed") \in [Session -> UplinkOf(R)]
         /\ Becomes(s, "closed") \in [Session -> UplinkOf(R)]
<1>1. NoWire \in HeldOf(R) /\ NoWire \in RestOf(R)
  BY DEF HeldOf, RestOf
<1>2. Flushed(s) \in [Session -> UplinkOf(R)]
  BY DEF Flushed, UplinkTypes, UplinkOf
<1>3. ASSUME NEW x \in {"failed", "closed"}
      PROVE  Becomes(s, x) \in [Session -> UplinkOf(R)]
  <2>1. uplink[s] \in UplinkOf(R)
    BY DEF UplinkTypes
  <2>2. [uplink[s] EXCEPT !.state = x, !.flush = FALSE, !.hand = NoWire, !.rest = NoWire]
          \in UplinkOf(R)
    BY <2>1, <1>1 DEF UplinkOf
  <2>3. Becomes(s, x) = [uplink EXCEPT ![s] =
          [uplink[s] EXCEPT !.state = x, !.flush = FALSE, !.hand = NoWire, !.rest = NoWire]]
    BY DEF Becomes, UplinkTypes
  <2> QED BY <2>2, <2>3 DEF UplinkTypes
<1> QED BY <1>2, <1>3

LEMMA JobParts ==
  ASSUME NEW R, 0 \in R, JobTypes(R), NEW j \in Builder
  PROVE  /\ \A at \in JobStage : To(j, at) => job' \in [Builder -> JobOf(R)]
         /\ job' = [job EXCEPT ![j] = NoJob] => job' \in [Builder -> JobOf(R)]
<1>1. NoJob \in JobOf(R)
  BY DEF NoJob, JobOf, JobStage
<1>2. ASSUME NEW at \in JobStage, To(j, at) PROVE job' \in [Builder -> JobOf(R)]
  BY <1>2 DEF To, JobTypes, JobOf
<1> QED BY <1>1, <1>2 DEF JobTypes

LEMMA JobEnds ==
  ASSUME NEW R, 0 \in R, JobTypes(R), UplinkTypes(R), NEW j \in Builder, EndJob(j)
  PROVE  job' \in [Builder -> JobOf(R)] /\ uplink' \in [Session -> UplinkOf(R)]
<1>1. job' \in [Builder -> JobOf(R)]
  BY JobParts DEF EndJob
<1>2. uplink' \in [Session -> UplinkOf(R)]
  <2>1. CASE j \in Session
    BY <2>1, UplinkParts DEF EndJob
  <2>2. CASE j \notin Session
    BY <2>2 DEF EndJob, UplinkTypes
  <2> QED BY <2>1, <2>2
<1> QED BY <1>1, <1>2

LEMMA SeqParts ==
  ASSUME NEW S, NEW q \in Seq(S), NEW x \in S
  PROVE  /\ Append(q, x) \in Seq(S) /\ <<x>> \o q \in Seq(S)
         /\ q # <<>> => Tail(q) \in Seq(S) /\ Head(q) \in S
         /\ \A y \in S : <<x, y>> \in Seq(S)
OBVIOUS

LEMMA Published ==
  ASSUME NEW R, IngressTypes(R), NEW s \in Session, NEW m \in MessageOf(R), Publish(s, m)
  PROVE  incoming' \in [Session -> Seq(MessageOf(R))]
<1>1. Append(incoming[s], m) \in Seq(MessageOf(R))
  BY DEF IngressTypes
<1> QED BY <1>1 DEF Publish, IngressTypes

LEMMA Consumed ==
  ASSUME NEW R, IngressTypes(R), NEW s \in Session, incoming[s] # <<>>
  PROVE  /\ Head(incoming[s]) \in MessageOf(R)
         /\ [incoming EXCEPT ![s] = Tail(@)] \in [Session -> Seq(MessageOf(R))]
<1>1. Tail(incoming[s]) \in Seq(MessageOf(R)) /\ Head(incoming[s]) \in MessageOf(R)
  BY DEF IngressTypes
<1> QED BY <1>1 DEF IngressTypes

LEMMA SendTypes ==
  ASSUME NEW R, 0 \in R, NodeTypes(R), NEW w \in HeldOf(R), Receive(w)
  PROVE  NodeTypes(R)'
<1>1. CASE w.kind = "begin" /\ staged' = w /\ UNCHANGED <<installed, answer>>
  BY <1>1 DEF NodeTypes
<1>2. CASE w.kind = "commit" /\ staged' = NoWire
           /\ (Install(w) \/ installed' = installed)
           /\ \/ answer' = [w EXCEPT !.kind = "applied"]
              \/ answer' = [w EXCEPT !.kind = "rejected"] \/ answer' = answer
  <2> w \in OfKind({"begin", "commit"}, R)
    BY <1>2 DEF HeldOf, WireOf, NoWire
  <2>1. answer' \in AnswerOf(R)
    BY <1>2 DEF AnswerOf, OfKind, NodeTypes
  <2>2. installed' \in [rev : R, content : 0 .. MaxEdits]
    BY <1>2 DEF OfKind, NodeTypes, Install
  <2> QED BY <1>2, <2>1, <2>2, NoWireTypes DEF NodeTypes
<1> QED BY <1>1, <1>2 DEF Receive, Install

LEMMA ProjectedTypes ==
  ASSUME NEW R, StatusTypes(R), NEW m \in MessageOf(R), m.kind # "report"
  PROVE  Projected(m) \in [desired : R, active : R, state : RowState]
<1>1. m.rev \in R /\ m.kind \in {"hello", "beat", "applied", "rejected"}
  BY DEF MessageOf, OfKind
<1>2. config.active \in R /\ config.desired \in R /\ config.state \in RowState
  BY DEF StatusTypes
<1>3. CASE m.kind = "hello"
  BY <1>1, <1>3 DEF Projected, StatusTypes
<1>4. CASE m.kind = "beat"
  <2> DEFINE x == IF m.rev = config.desired /\ m.rev > 0 THEN "applied" ELSE config.state
  <2>1. x \in RowState
    BY <1>2 DEF RowState
  <2>2. Projected(m) = [config EXCEPT !.active = m.rev, !.state = x]
    BY <1>4, Zenon DEF Projected
  <2> HIDE DEF x
  <2> QED BY <1>1, <2>1, <2>2 DEF StatusTypes
<1>5. CASE m.kind = "applied"
  <2> DEFINE x == IF IsDesired(m.rev) THEN "applied" ELSE config.state
             a == Larger(config.active, m.rev)
  <2>1. x \in RowState /\ a \in R
    BY <1>1, <1>2 DEF RowState, Larger
  <2>2. Projected(m) = [config EXCEPT !.active = a, !.state = x]
    BY <1>5 DEF Projected
  <2> HIDE DEF x, a
  <2> QED BY <2>1, <2>2 DEF StatusTypes
<1>6. CASE m.kind = "rejected"
  <2> DEFINE x == IF IsDesired(m.rev) THEN "rejected" ELSE config.state
  <2>1. x \in RowState
    BY <1>2 DEF RowState
  <2>2. Projected(m) = [config EXCEPT !.state = x]
    BY <1>6 DEF Projected
  <2> HIDE DEF x
  <2> QED BY <2>1, <2>2 DEF StatusTypes
<1> QED BY <1>1, <1>3, <1>4, <1>5, <1>6

\* A session that has accepted a connection has the hello at hand until it is in the
\* stream.
HelloAtHand == \A s \in Session : uplink[s].state = "hello" => uplink[s].rest.kind = "hello"

LEMMA ConfigStepTypes ==
  ASSUME NEW R, 0 \in R, ConfigTypes(R), HelloAtHand, NextEdgeConfig,
         \A e \in Editor : Choose(e) => job'[e].rev \in R
  PROVE  ConfigTypes(R)'
<1> USE DEF ConfigTypes
<1>1. ASSUME NEW e \in Editor, Edit(e)
      PROVE  ConfigTypes(R)'
  <2>1. ChangeTypes(R)'
    BY <1>1 DEF ChangeTypes, Edit, rowVars
  <2>2. StatusTypes(R)'
    BY <1>1 DEF StatusTypes, Edit, rowVars
  <2>3. QueueTypes(R)'
    BY <1>1 DEF QueueTypes, Edit, queueVars
  <2>4. UplinkTypes(R)'
    BY <1>1 DEF UplinkTypes, Edit
  <2>5. IngressTypes(R)'
    BY <1>1 DEF IngressTypes, Edit
  <2>6. KeyTypes'
    BY <1>1 DEF KeyTypes, Edit, nodeVars
  <2>7. NodeTypes(R)'
    BY <1>1 DEF NodeTypes, Edit, nodeVars
  <2>8. JobTypes(R)'
    BY <1>1, JobParts, Builders DEF Edit, JobTypes, JobStage
  <2>9. PastTypes'
    BY <1>1 DEF PastTypes, Edit, pastVars
  <2> QED BY <2>1, <2>2, <2>3, <2>4, <2>5, <2>6, <2>7, <2>8, <2>9
             DEF ConfigTypes
<1>2. ASSUME NEW e \in Editor, Choose(e)
      PROVE  ConfigTypes(R)'
  <2>1. ChangeTypes(R)'
    BY <1>2 DEF Choose, ChangeTypes, Larger
  <2>2. StatusTypes(R)'
    BY <1>2 DEF StatusTypes, Choose, rowVars
  <2>3. QueueTypes(R)'
    BY <1>2 DEF QueueTypes, Choose, queueVars
  <2>4. UplinkTypes(R)'
    BY <1>2 DEF UplinkTypes, Choose
  <2>5. IngressTypes(R)'
    BY <1>2 DEF IngressTypes, Choose
  <2>6. KeyTypes'
    BY <1>2 DEF KeyTypes, Choose, nodeVars
  <2>7. NodeTypes(R)'
    BY <1>2 DEF NodeTypes, Choose, nodeVars
  <2>8. JobTypes(R)'
    BY <1>2, Builders DEF Choose, To, JobTypes, JobOf, JobStage
  <2>9. PastTypes'
    BY <1>2 DEF Choose, PastTypes, ChangeTypes
  <2> QED BY <2>1, <2>2, <2>3, <2>4, <2>5, <2>6, <2>7, <2>8, <2>9
             DEF ConfigTypes
<1>3. ASSUME NEW e \in Editor, Raise(e)
      PROVE  ConfigTypes(R)'
  <2>1. ChangeTypes(R)'
    BY <1>3 DEF ChangeTypes, Raise, rowVars
  <2>2. StatusTypes(R)'
    BY <1>3, Builders DEF Raise, StatusTypes, RowState, JobTypes, JobOf
  <2>3. QueueTypes(R)'
    BY <1>3 DEF QueueTypes, Raise, queueVars
  <2>4. UplinkTypes(R)'
    BY <1>3 DEF UplinkTypes, Raise
  <2>5. IngressTypes(R)'
    BY <1>3 DEF IngressTypes, Raise
  <2>6. KeyTypes'
    BY <1>3 DEF KeyTypes, Raise, nodeVars
  <2>7. NodeTypes(R)'
    BY <1>3 DEF NodeTypes, Raise, nodeVars
  <2>8. JobTypes(R)'
    BY <1>3, JobParts, Builders DEF Raise, JobTypes, JobStage
  <2>9. PastTypes'
    BY <1>3 DEF PastTypes, Raise, pastVars
  <2> QED BY <2>1, <2>2, <2>3, <2>4, <2>5, <2>6, <2>7, <2>8, <2>9
             DEF ConfigTypes
<1>4. ASSUME NEW j \in Replayer, Look(j)
      PROVE  ConfigTypes(R)'
  <2>1. ChangeTypes(R)'
    BY <1>4 DEF ChangeTypes, Look, EndJob, Flushed, IsOpen, ActiveFor, rowVars
  <2>2. StatusTypes(R)'
    BY <1>4 DEF StatusTypes, Look, EndJob, Flushed, IsOpen, ActiveFor, rowVars
  <2>3. QueueTypes(R)'
    BY <1>4 DEF QueueTypes, Look, EndJob, Flushed, IsOpen, ActiveFor, queueVars
  <2>4. UplinkTypes(R)'
    BY <1>4, JobEnds, JobParts, Builders DEF Look, JobTypes, UplinkTypes,
       JobStage
  <2>5. IngressTypes(R)'
    BY <1>4 DEF IngressTypes, Look, EndJob, Flushed, IsOpen, ActiveFor
  <2>6. KeyTypes'
    BY <1>4 DEF KeyTypes, Look, EndJob, Flushed, IsOpen, ActiveFor, nodeVars
  <2>7. NodeTypes(R)'
    BY <1>4 DEF NodeTypes, Look, EndJob, Flushed, IsOpen, ActiveFor, nodeVars
  <2>8. JobTypes(R)'
    BY <1>4, JobEnds, Builders, SMTT(40)
       DEF Look, JobTypes, UplinkTypes, JobOf, JobStage, StatusTypes
  <2>9. PastTypes'
    BY <1>4 DEF PastTypes, Look, EndJob, Flushed, IsOpen, ActiveFor, pastVars
  <2> QED BY <2>1, <2>2, <2>3, <2>4, <2>5, <2>6, <2>7, <2>8, <2>9
             DEF ConfigTypes
<1>5. ASSUME NEW j \in Builder, Build(j)
      PROVE  ConfigTypes(R)'
  <2>1. ChangeTypes(R)'
    BY <1>5 DEF ChangeTypes, Build, rowVars
  <2>2. StatusTypes(R)'
    BY <1>5 DEF StatusTypes, Build, rowVars
  <2>3. QueueTypes(R)'
    BY <1>5 DEF QueueTypes, Build, queueVars
  <2>4. UplinkTypes(R)'
    BY <1>5 DEF UplinkTypes, Build
  <2>5. IngressTypes(R)'
    BY <1>5 DEF IngressTypes, Build
  <2>6. KeyTypes'
    BY <1>5 DEF KeyTypes, Build, nodeVars
  <2>7. NodeTypes(R)'
    BY <1>5 DEF NodeTypes, Build, nodeVars
  <2>8. JobTypes(R)'
    <3>1. CASE To(j, "rejected") \/ To(j, "unsupported")
      BY <3>1, JobParts DEF JobTypes, JobStage
    <3>2. ASSUME NEW x \in {"record", "claim"},
                 job' = [job EXCEPT ![j].content = content, ![j].at = x]
          PROVE  JobTypes(R)'
      BY <3>2, ZenonT(60) DEF JobTypes, JobOf, JobStage, ChangeTypes
    <3> QED BY <1>5, <3>1, <3>2 DEF Build
  <2>9. PastTypes'
    BY <1>5 DEF PastTypes, Build, pastVars
  <2> QED BY <2>1, <2>2, <2>3, <2>4, <2>5, <2>6, <2>7, <2>8, <2>9
             DEF ConfigTypes
<1>6. ASSUME NEW j \in Builder, Refuse(j)
      PROVE  ConfigTypes(R)'
  <2>1. ChangeTypes(R)'
    BY <1>6 DEF ChangeTypes, Refuse, EndJob, Flushed, IsOpen, rowVars
  <2>2. StatusTypes(R)'
    <3>1. PICK why \in {"rejected", "unsupported"} :
            config' = IF IsDesired(job[j].rev) THEN [config EXCEPT !.state = why] ELSE config
      BY <1>6 DEF Refuse
    <3> QED BY <3>1 DEF StatusTypes, RowState
  <2>3. QueueTypes(R)'
    BY <1>6 DEF QueueTypes, Refuse, EndJob, Flushed, IsOpen, queueVars
  <2>4. UplinkTypes(R)'
    BY <1>6, JobEnds, JobParts, Builders DEF Refuse, JobTypes, UplinkTypes,
       JobStage
  <2>5. IngressTypes(R)'
    BY <1>6 DEF IngressTypes, Refuse, EndJob, Flushed, IsOpen
  <2>6. KeyTypes'
    BY <1>6 DEF KeyTypes, Refuse, EndJob, Flushed, IsOpen, nodeVars
  <2>7. NodeTypes(R)'
    BY <1>6 DEF NodeTypes, Refuse, EndJob, Flushed, IsOpen, nodeVars
  <2>8. JobTypes(R)'
    BY <1>6, JobEnds, JobParts, Builders DEF Refuse, JobTypes, UplinkTypes,
       JobStage
  <2>9. PastTypes'
    BY <1>6 DEF PastTypes, Refuse, EndJob, Flushed, IsOpen, pastVars
  <2> QED BY <2>1, <2>2, <2>3, <2>4, <2>5, <2>6, <2>7, <2>8, <2>9
             DEF ConfigTypes
<1>7. ASSUME NEW j \in Replayer, ClaimReplay(j)
      PROVE  ConfigTypes(R)'
  <2>1. ChangeTypes(R)'
    BY <1>7 DEF ChangeTypes, ClaimReplay, EndJob, Flushed, IsOpen, rowVars
  <2>2. StatusTypes(R)'
    BY <1>7 DEF ClaimReplay, StatusTypes, RowState, rowVars
  <2>3. QueueTypes(R)'
    BY <1>7 DEF QueueTypes, ClaimReplay, EndJob, Flushed, IsOpen, queueVars
  <2>4. UplinkTypes(R)'
    BY <1>7, JobEnds, JobParts, Builders DEF ClaimReplay, JobTypes, UplinkTypes,
       JobStage
  <2>5. IngressTypes(R)'
    BY <1>7 DEF IngressTypes, ClaimReplay, EndJob, Flushed, IsOpen
  <2>6. KeyTypes'
    BY <1>7 DEF KeyTypes, ClaimReplay, EndJob, Flushed, IsOpen, nodeVars
  <2>7. NodeTypes(R)'
    BY <1>7 DEF NodeTypes, ClaimReplay, EndJob, Flushed, IsOpen, nodeVars
  <2>8. JobTypes(R)'
    BY <1>7, JobEnds, JobParts, Builders DEF ClaimReplay, JobTypes, UplinkTypes,
       JobStage
  <2>9. PastTypes'
    BY <1>7 DEF PastTypes, ClaimReplay, EndJob, Flushed, IsOpen, pastVars
  <2> QED BY <2>1, <2>2, <2>3, <2>4, <2>5, <2>6, <2>7, <2>8, <2>9
             DEF ConfigTypes
<1>8. ASSUME NEW j \in Builder, RecordRevision(j)
      PROVE  ConfigTypes(R)'
  <2>1. ChangeTypes(R)'
    BY <1>8, Builders DEF RecordRevision, ChangeTypes, JobTypes, JobOf
  <2>2. StatusTypes(R)'
    BY <1>8 DEF StatusTypes, RecordRevision, EndJob, Flushed, IsOpen, rowVars
  <2>3. QueueTypes(R)'
    BY <1>8 DEF QueueTypes, RecordRevision, EndJob, Flushed, IsOpen, queueVars
  <2>4. UplinkTypes(R)'
    BY <1>8, JobEnds, JobParts, Builders DEF RecordRevision, JobTypes,
       UplinkTypes, JobStage
  <2>5. IngressTypes(R)'
    BY <1>8 DEF IngressTypes, RecordRevision, EndJob, Flushed, IsOpen
  <2>6. KeyTypes'
    BY <1>8 DEF KeyTypes, RecordRevision, EndJob, Flushed, IsOpen, nodeVars
  <2>7. NodeTypes(R)'
    BY <1>8 DEF NodeTypes, RecordRevision, EndJob, Flushed, IsOpen, nodeVars
  <2>8. JobTypes(R)'
    BY <1>8, JobEnds, JobParts, Builders DEF RecordRevision, JobTypes,
       UplinkTypes, JobStage
  <2>9. PastTypes'
    BY <1>8 DEF PastTypes, RecordRevision, EndJob, Flushed, IsOpen, pastVars
  <2> QED BY <2>1, <2>2, <2>3, <2>4, <2>5, <2>6, <2>7, <2>8, <2>9
             DEF ConfigTypes
<1>9. ASSUME NEW j \in Builder, ReplaceQueue(j)
      PROVE  ConfigTypes(R)'
  <2>1. ChangeTypes(R)'
    BY <1>9 DEF ChangeTypes, ReplaceQueue, rowVars
  <2>2. StatusTypes(R)'
    BY <1>9 DEF StatusTypes, ReplaceQueue, rowVars
  <2>3. QueueTypes(R)'
    <3>1. CASE IsLater(job[j].rev)
      BY <1>9, <3>1 DEF ReplaceQueue, QueueTypes, queueVars
    <3>2. CASE ~IsLater(job[j].rev)
      <4>1. job[j] \in JobOf(R)
        BY DEF JobTypes
      <4>2. \A k \in {"begin", "commit"} :
              [kind |-> k, rev |-> job[j].rev, content |-> job[j].content] \in WireOf(R)
        BY <4>1 DEF JobOf, WireOf, OfKind
      <4>3. wires' = <<[kind |-> "begin", rev |-> job[j].rev, content |-> job[j].content],
                       [kind |-> "commit", rev |-> job[j].rev, content |-> job[j].content]>>
        BY <1>9, <3>2 DEF ReplaceQueue
      <4>5. wires' \in Seq(WireOf(R))
        BY <4>2, <4>3
      <4> QED BY <1>9, <3>2, <4>1, <4>5 DEF ReplaceQueue, QueueTypes, JobOf
    <3> QED BY <3>1, <3>2
  <2>4. UplinkTypes(R)'
    BY <1>9 DEF UplinkTypes, ReplaceQueue
  <2>5. IngressTypes(R)'
    BY <1>9 DEF IngressTypes, ReplaceQueue
  <2>6. KeyTypes'
    BY <1>9 DEF KeyTypes, ReplaceQueue, nodeVars
  <2>7. NodeTypes(R)'
    BY <1>9 DEF NodeTypes, ReplaceQueue, nodeVars
  <2>8. JobTypes(R)'
    BY <1>9, JobParts, Builders DEF ReplaceQueue, JobTypes, JobStage
  <2>9. PastTypes'
    BY <1>9 DEF PastTypes, ReplaceQueue, pastVars
  <2> QED BY <2>1, <2>2, <2>3, <2>4, <2>5, <2>6, <2>7, <2>8, <2>9
             DEF ConfigTypes
<1>10. ASSUME NEW j \in Builder, NotifyNode(j)
      PROVE  ConfigTypes(R)'
  <2>1. ChangeTypes(R)'
    BY <1>10 DEF ChangeTypes, NotifyNode, rowVars
  <2>2. StatusTypes(R)'
    BY <1>10 DEF StatusTypes, NotifyNode, rowVars
  <2>3. QueueTypes(R)'
    BY <1>10 DEF QueueTypes, NotifyNode, queueVars
  <2>4. UplinkTypes(R)'
    <3>1. \A t \in Session : [uplink[t] EXCEPT !.flush = TRUE] \in UplinkOf(R)
      BY DEF UplinkTypes, UplinkOf
    <3> QED BY <1>10, <3>1 DEF NotifyNode, UplinkTypes
  <2>5. IngressTypes(R)'
    BY <1>10 DEF IngressTypes, NotifyNode
  <2>6. KeyTypes'
    BY <1>10 DEF KeyTypes, NotifyNode, nodeVars
  <2>7. NodeTypes(R)'
    BY <1>10 DEF NodeTypes, NotifyNode, nodeVars
  <2>8. JobTypes(R)'
    BY <1>10, JobParts, Builders DEF NotifyNode, JobTypes, JobStage
  <2>9. PastTypes'
    BY <1>10 DEF PastTypes, NotifyNode, pastVars
  <2> QED BY <2>1, <2>2, <2>3, <2>4, <2>5, <2>6, <2>7, <2>8, <2>9
             DEF ConfigTypes
<1>11. ASSUME NEW j \in Builder, JobFails(j)
      PROVE  ConfigTypes(R)'
  <2>1. ChangeTypes(R)'
    BY <1>11 DEF ChangeTypes, JobFails, Lost, rowVars
  <2>2. StatusTypes(R)'
    BY <1>11 DEF StatusTypes, JobFails, Lost, rowVars
  <2>3. QueueTypes(R)'
    BY <1>11 DEF QueueTypes, JobFails, Lost, queueVars
  <2>4. UplinkTypes(R)'
    BY <1>11 DEF UplinkTypes, JobFails, Lost
  <2>5. IngressTypes(R)'
    BY <1>11 DEF IngressTypes, JobFails, Lost
  <2>6. KeyTypes'
    BY <1>11 DEF KeyTypes, JobFails, Lost, nodeVars
  <2>7. NodeTypes(R)'
    BY <1>11 DEF NodeTypes, JobFails, Lost, nodeVars
  <2>8. JobTypes(R)'
    BY <1>11, Builders DEF JobFails, JobTypes, JobOf, JobStage, NoJob
  <2>9. PastTypes'
    BY <1>11 DEF PastTypes, JobFails, Lost, pastVars
  <2> QED BY <2>1, <2>2, <2>3, <2>4, <2>5, <2>6, <2>7, <2>8, <2>9
             DEF ConfigTypes
<1>12. ASSUME NEW s \in Session, Dial(s)
      PROVE  ConfigTypes(R)'
  <2>1. ChangeTypes(R)'
    BY <1>12 DEF ChangeTypes, Dial, rowVars
  <2>2. StatusTypes(R)'
    BY <1>12 DEF StatusTypes, Dial, rowVars
  <2>3. QueueTypes(R)'
    BY <1>12 DEF QueueTypes, Dial, queueVars
  <2>4. UplinkTypes(R)'
    <3>1. [kind |-> "hello", rev |-> installed.rev, content |-> 0] \in RestOf(R)
      BY DEF RestOf, OfKind, NodeTypes
    <3>2. \A m \in RestOf(R) :
            [uplink[s] EXCEPT !.state = "hello", !.rest = m] \in UplinkOf(R)
      BY DEF UplinkTypes, UplinkOf
    <3>3. uplink' = [uplink EXCEPT ![s] = [uplink[s] EXCEPT !.state = "hello",
                       !.rest = [kind |-> "hello", rev |-> installed.rev, content |-> 0]]]
      BY <1>12 DEF Dial, UplinkTypes
    <3> QED BY <3>1, <3>2, <3>3 DEF UplinkTypes
  <2>5. IngressTypes(R)'
    BY <1>12 DEF IngressTypes, Dial
  <2>6. KeyTypes'
    BY <1>12 DEF KeyTypes, Dial, nodeVars
  <2>7. NodeTypes(R)'
    BY <1>12 DEF NodeTypes, Dial, nodeVars
  <2>8. JobTypes(R)'
    BY <1>12 DEF JobTypes, Dial
  <2>9. PastTypes'
    BY <1>12 DEF PastTypes, Dial, pastVars
  <2> QED BY <2>1, <2>2, <2>3, <2>4, <2>5, <2>6, <2>7, <2>8, <2>9
             DEF ConfigTypes
<1>27. ASSUME NEW s \in Session, PublishHello(s)
      PROVE  ConfigTypes(R)'
  <2>1. ChangeTypes(R)'
    BY <1>27 DEF ChangeTypes, PublishHello, Publish, rowVars
  <2>2. StatusTypes(R)'
    BY <1>27 DEF StatusTypes, PublishHello, Publish, rowVars
  <2>3. QueueTypes(R)'
    BY <1>27 DEF QueueTypes, PublishHello, Publish, queueVars
  <2>4. UplinkTypes(R)'
    <3>1. [uplink[s] EXCEPT !.state = "claim", !.rest = NoWire] \in UplinkOf(R)
      BY NoWireTypes DEF UplinkTypes, UplinkOf
    <3>2. uplink' = [uplink EXCEPT ![s] = [uplink[s] EXCEPT !.state = "claim", !.rest = NoWire]]
      BY <1>27 DEF PublishHello, UplinkTypes
    <3> QED BY <3>1, <3>2 DEF UplinkTypes
  <2>5. IngressTypes(R)'
    <3>1. uplink[s].rest \in MessageOf(R)
      <4>1. uplink[s].rest = NoWire \/ uplink[s].rest \in MessageOf(R)
        BY DEF UplinkTypes, UplinkOf, RestOf, MessageOf, OfKind
      <4>2. uplink[s].rest # NoWire
        BY <1>27 DEF HelloAtHand, PublishHello, StateOf, NoWire
      <4> QED BY <4>1, <4>2
    <3> QED BY <1>27, <3>1, Published DEF PublishHello, IngressTypes
  <2>6. KeyTypes'
    BY <1>27 DEF KeyTypes, PublishHello, Publish, nodeVars
  <2>7. NodeTypes(R)'
    BY <1>27 DEF NodeTypes, PublishHello, Publish, nodeVars
  <2>8. JobTypes(R)'
    BY <1>27 DEF JobTypes, PublishHello, Publish
  <2>9. PastTypes'
    BY <1>27 DEF PastTypes, PublishHello, Publish, pastVars
  <2> QED BY <2>1, <2>2, <2>3, <2>4, <2>5, <2>6, <2>7, <2>8, <2>9
             DEF ConfigTypes
<1>28. ASSUME NEW s \in Session, ClaimSession(s)
      PROVE  ConfigTypes(R)'
  <2>1. ChangeTypes(R)'
    BY <1>28 DEF ChangeTypes, ClaimSession, rowVars
  <2>2. StatusTypes(R)'
    BY <1>28 DEF StatusTypes, ClaimSession, rowVars
  <2>3. QueueTypes(R)'
    BY <1>28 DEF QueueTypes, ClaimSession, queueVars
  <2>4. UplinkTypes(R)'
    <3>1. [uplink[s] EXCEPT !.state = "greet"] \in UplinkOf(R)
      BY NoWireTypes DEF UplinkTypes, UplinkOf
    <3>2. uplink' = [uplink EXCEPT ![s] = [uplink[s] EXCEPT !.state = "greet"]]
      BY <1>28 DEF ClaimSession, UplinkTypes
    <3> QED BY <3>1, <3>2 DEF UplinkTypes
  <2>5. IngressTypes(R)'
    BY <1>28 DEF IngressTypes, ClaimSession
  <2>6. KeyTypes'
    BY <1>28 DEF KeyTypes, ClaimSession, nodeVars
  <2>7. NodeTypes(R)'
    BY <1>28 DEF NodeTypes, ClaimSession, nodeVars
  <2>8. JobTypes(R)'
    BY <1>28 DEF JobTypes, ClaimSession
  <2>9. PastTypes'
    BY <1>28 DEF PastTypes, ClaimSession, pastVars
  <2> QED BY <2>1, <2>2, <2>3, <2>4, <2>5, <2>6, <2>7, <2>8, <2>9
             DEF ConfigTypes
<1>29. ASSUME NEW s \in Session, Greet(s)
      PROVE  ConfigTypes(R)'
  <2>1. ChangeTypes(R)'
    BY <1>29 DEF ChangeTypes, Greet, rowVars
  <2>2. StatusTypes(R)'
    BY <1>29 DEF StatusTypes, Greet, rowVars
  <2>3. QueueTypes(R)'
    BY <1>29 DEF QueueTypes, Greet, queueVars
  <2>4. UplinkTypes(R)'
    <3>1. [uplink[s] EXCEPT !.state = "open", !.flush = TRUE] \in UplinkOf(R)
          /\ [uplink[s] EXCEPT !.state = "closed"] \in UplinkOf(R)
      BY DEF UplinkTypes, UplinkOf
    <3>2. \/ uplink' = [uplink EXCEPT ![s] =
                          [uplink[s] EXCEPT !.state = "open", !.flush = TRUE]]
          \/ uplink' = [uplink EXCEPT ![s] = [uplink[s] EXCEPT !.state = "closed"]]
      BY <1>29 DEF Greet, UplinkTypes
    <3> QED BY <3>1, <3>2 DEF UplinkTypes
  <2>5. IngressTypes(R)'
    BY <1>29 DEF IngressTypes, Greet
  <2>6. KeyTypes'
    BY <1>29 DEF KeyTypes, Greet, nodeVars
  <2>7. NodeTypes(R)'
    BY <1>29 DEF NodeTypes, Greet, nodeVars
  <2>8. JobTypes(R)'
    BY <1>29 DEF JobTypes, Greet
  <2>9. PastTypes'
    BY <1>29 DEF PastTypes, Greet, pastVars
  <2> QED BY <2>1, <2>2, <2>3, <2>4, <2>5, <2>6, <2>7, <2>8, <2>9
             DEF ConfigTypes
<1>30. ASSUME NEW s \in Session, TurnAway(s)
      PROVE  ConfigTypes(R)'
  <2>1. ChangeTypes(R)'
    BY <1>30 DEF ChangeTypes, TurnAway, Becomes, Lost, Disconnects, Released, rowVars
  <2>2. StatusTypes(R)'
    BY <1>30 DEF StatusTypes, TurnAway, Becomes, Lost, Disconnects, Released, rowVars
  <2>3. QueueTypes(R)'
    BY <1>30 DEF QueueTypes, TurnAway, Becomes, Lost, Disconnects, Released, queueVars
  <2>4. UplinkTypes(R)'
    BY <1>30, UplinkParts DEF TurnAway, UplinkTypes
  <2>5. IngressTypes(R)'
    BY <1>30 DEF IngressTypes, TurnAway, Becomes, Lost, Disconnects, Released
  <2>6. KeyTypes'
    BY <1>30 DEF KeyTypes, TurnAway, Becomes, Lost, Disconnects, Released, nodeVars
  <2>7. NodeTypes(R)'
    BY <1>30, NoWireTypes DEF TurnAway, Disconnects, NodeTypes, nodeVars
  <2>8. JobTypes(R)'
    BY <1>30 DEF JobTypes, TurnAway, Becomes, Lost, Disconnects, Released
  <2>9. PastTypes'
    BY <1>30 DEF PastTypes, TurnAway, Becomes, Lost, Disconnects, Released, pastVars
  <2> QED BY <2>1, <2>2, <2>3, <2>4, <2>5, <2>6, <2>7, <2>8, <2>9
             DEF ConfigTypes
<1>31. ASSUME NEW s \in Session, LoseKey(s)
      PROVE  ConfigTypes(R)'
  <2>1. ChangeTypes(R)'
    BY <1>31 DEF ChangeTypes, LoseKey, Becomes, Disconnects, IsOpen, rowVars
  <2>2. StatusTypes(R)'
    BY <1>31 DEF StatusTypes, LoseKey, Becomes, Disconnects, IsOpen, rowVars
  <2>3. QueueTypes(R)'
    BY <1>31 DEF QueueTypes, LoseKey, Becomes, Disconnects, IsOpen, queueVars
  <2>4. UplinkTypes(R)'
    <3>1. Becomes(s, "failed")[s] \in UplinkOf(R) /\ uplink[s].hand \in HeldOf(R)
      BY UplinkParts DEF UplinkTypes, UplinkOf
    <3>2. [Becomes(s, "failed")[s] EXCEPT !.hand = uplink[s].hand] \in UplinkOf(R)
      BY <3>1 DEF UplinkOf
    <3>3. uplink' = [Becomes(s, "failed") EXCEPT ![s] =
                       [Becomes(s, "failed")[s] EXCEPT !.hand = uplink[s].hand]]
      BY <1>31, UplinkParts DEF LoseKey
    <3> QED BY <3>2, <3>3, UplinkParts DEF UplinkTypes
  <2>5. IngressTypes(R)'
    BY <1>31 DEF IngressTypes, LoseKey, Becomes, Disconnects, IsOpen
  <2>6. KeyTypes'
    BY <1>31 DEF KeyTypes, LoseKey, Becomes, Disconnects, IsOpen, nodeVars
  <2>7. NodeTypes(R)'
    BY <1>31, NoWireTypes DEF LoseKey, Disconnects, NodeTypes, nodeVars
  <2>8. JobTypes(R)'
    BY <1>31 DEF JobTypes, LoseKey, Becomes, Disconnects, IsOpen
  <2>9. PastTypes'
    BY <1>31 DEF PastTypes, LoseKey, Becomes, Disconnects, IsOpen, pastVars
  <2> QED BY <2>1, <2>2, <2>3, <2>4, <2>5, <2>6, <2>7, <2>8, <2>9
             DEF ConfigTypes
<1>13. ASSUME BreakLink
      PROVE  ConfigTypes(R)'
  <2>1. ChangeTypes(R)'
    BY <1>13 DEF ChangeTypes, BreakLink, Lost, rowVars
  <2>2. StatusTypes(R)'
    BY <1>13 DEF StatusTypes, BreakLink, Lost, rowVars
  <2>3. QueueTypes(R)'
    BY <1>13 DEF QueueTypes, BreakLink, Lost, queueVars
  <2>4. UplinkTypes(R)'
    <3>1. CASE uplink' = uplink
      BY <3>1 DEF UplinkTypes
    <3>2. ASSUME NEW m \in {answer, NoWire}, uplink' = [uplink EXCEPT ![link].rest = m]
          PROVE  UplinkTypes(R)'
      <4>1. m \in RestOf(R) /\ link \in Session
        BY <1>13, NoWireTypes DEF NodeTypes, KeyTypes, BreakLink
      <4>2. [uplink[link] EXCEPT !.rest = m] \in UplinkOf(R)
        BY <4>1 DEF UplinkTypes, UplinkOf
      <4>3. uplink' = [uplink EXCEPT ![link] = [uplink[link] EXCEPT !.rest = m]]
        BY <3>2, <4>1 DEF UplinkTypes
      <4> QED BY <4>1, <4>2, <4>3 DEF UplinkTypes
    <3> QED BY <1>13, <3>1, <3>2 DEF BreakLink
  <2>5. IngressTypes(R)'
    BY <1>13 DEF IngressTypes, BreakLink, Lost
  <2>6. KeyTypes'
    BY <1>13 DEF KeyTypes, BreakLink, Lost, nodeVars
  <2>7. NodeTypes(R)'
    BY <1>13, NoWireTypes DEF BreakLink, NodeTypes, nodeVars
  <2>8. JobTypes(R)'
    BY <1>13 DEF JobTypes, BreakLink, To, Lost
  <2>9. PastTypes'
    BY <1>13 DEF PastTypes, BreakLink, Lost, pastVars
  <2> QED BY <2>1, <2>2, <2>3, <2>4, <2>5, <2>6, <2>7, <2>8, <2>9
             DEF ConfigTypes
<1>14. ASSUME NEW s \in Session, ReturnWire(s)
      PROVE  ConfigTypes(R)'
  <2>1. ChangeTypes(R)'
    BY <1>14 DEF ChangeTypes, ReturnWire, Becomes, rowVars
  <2>2. StatusTypes(R)'
    BY <1>14 DEF StatusTypes, ReturnWire, Becomes, rowVars
  <2>3. QueueTypes(R)'
    <3>1. uplink[s].hand \in WireOf(R)
      BY <1>14 DEF ReturnWire, UplinkTypes, UplinkOf, HeldOf
    <3>2. wires' \in Seq(WireOf(R))
      BY <1>14, <3>1, SeqParts DEF ReturnWire, QueueTypes
    <3> QED BY <1>14, <3>2 DEF ReturnWire, QueueTypes
  <2>4. UplinkTypes(R)'
    BY <1>14, UplinkParts DEF ReturnWire, UplinkTypes
  <2>5. IngressTypes(R)'
    BY <1>14 DEF IngressTypes, ReturnWire, Becomes
  <2>6. KeyTypes'
    BY <1>14 DEF KeyTypes, ReturnWire, Becomes, nodeVars
  <2>7. NodeTypes(R)'
    BY <1>14 DEF NodeTypes, ReturnWire, Becomes, nodeVars
  <2>8. JobTypes(R)'
    BY <1>14 DEF JobTypes, ReturnWire, To, Becomes
  <2>9. PastTypes'
    BY <1>14 DEF PastTypes, ReturnWire, Becomes, pastVars
  <2> QED BY <2>1, <2>2, <2>3, <2>4, <2>5, <2>6, <2>7, <2>8, <2>9
             DEF ConfigTypes
<1>15. ASSUME NEW s \in Session, EndSession(s)
      PROVE  ConfigTypes(R)'
  <2>1. ChangeTypes(R)'
    BY <1>15 DEF ChangeTypes, EndSession, Becomes, rowVars
  <2>2. StatusTypes(R)'
    BY <1>15 DEF StatusTypes, EndSession, Becomes, rowVars
  <2>3. QueueTypes(R)'
    BY <1>15 DEF QueueTypes, EndSession, Becomes, queueVars
  <2>4. UplinkTypes(R)'
    BY <1>15, UplinkParts DEF EndSession, UplinkTypes
  <2>5. IngressTypes(R)'
    BY <1>15 DEF IngressTypes, EndSession, Becomes
  <2>6. KeyTypes'
    BY <1>15 DEF KeyTypes, EndSession, Released, nodeVars
  <2>7. NodeTypes(R)'
    BY <1>15 DEF NodeTypes, EndSession, Becomes, nodeVars
  <2>8. JobTypes(R)'
    BY <1>15 DEF JobTypes, EndSession, To, Becomes
  <2>9. PastTypes'
    BY <1>15 DEF PastTypes, EndSession, Becomes, pastVars
  <2> QED BY <2>1, <2>2, <2>3, <2>4, <2>5, <2>6, <2>7, <2>8, <2>9
             DEF ConfigTypes
<1>16. ASSUME NEW s \in Session, SessionDies(s)
      PROVE  ConfigTypes(R)'
  <2>1. ChangeTypes(R)'
    BY <1>16 DEF ChangeTypes, SessionDies, Becomes, Lost, rowVars
  <2>2. StatusTypes(R)'
    BY <1>16 DEF StatusTypes, SessionDies, Becomes, Lost, rowVars
  <2>3. QueueTypes(R)'
    BY <1>16 DEF QueueTypes, SessionDies, Becomes, Lost, queueVars
  <2>4. UplinkTypes(R)'
    BY <1>16, UplinkParts DEF SessionDies, UplinkTypes
  <2>5. IngressTypes(R)'
    BY <1>16 DEF IngressTypes, SessionDies, Becomes, Lost
  <2>6. KeyTypes'
    BY <1>16 DEF KeyTypes, SessionDies, Disconnects
  <2>7. NodeTypes(R)'
    BY <1>16, NoWireTypes DEF SessionDies, Disconnects, NodeTypes
  <2>8. JobTypes(R)'
    BY <1>16, JobParts, Builders DEF SessionDies, JobTypes, JobStage
  <2>9. PastTypes'
    BY <1>16 DEF PastTypes, SessionDies, Becomes, Lost, pastVars
  <2> QED BY <2>1, <2>2, <2>3, <2>4, <2>5, <2>6, <2>7, <2>8, <2>9
             DEF ConfigTypes
<1>17. ASSUME HolderExpires
      PROVE  ConfigTypes(R)'
  <2>1. ChangeTypes(R)'
    BY <1>17 DEF ChangeTypes, HolderExpires, rowVars
  <2>2. StatusTypes(R)'
    BY <1>17 DEF StatusTypes, HolderExpires, rowVars
  <2>3. QueueTypes(R)'
    BY <1>17 DEF QueueTypes, HolderExpires, queueVars
  <2>4. UplinkTypes(R)'
    BY <1>17 DEF UplinkTypes, HolderExpires
  <2>5. IngressTypes(R)'
    BY <1>17 DEF IngressTypes, HolderExpires
  <2>6. KeyTypes'
    BY <1>17 DEF KeyTypes, HolderExpires, nodeVars
  <2>7. NodeTypes(R)'
    BY <1>17 DEF NodeTypes, HolderExpires, nodeVars
  <2>8. JobTypes(R)'
    BY <1>17 DEF JobTypes, HolderExpires, To
  <2>9. PastTypes'
    BY <1>17 DEF PastTypes, HolderExpires, pastVars
  <2> QED BY <2>1, <2>2, <2>3, <2>4, <2>5, <2>6, <2>7, <2>8, <2>9
             DEF ConfigTypes
<1>18. ASSUME NEW s \in Session, PopWire(s)
      PROVE  ConfigTypes(R)'
  <2>1. ChangeTypes(R)'
    BY <1>18 DEF ChangeTypes, PopWire, rowVars
  <2>2. StatusTypes(R)'
    BY <1>18 DEF StatusTypes, PopWire, rowVars
  <2>3. QueueTypes(R)'
    BY <1>18 DEF QueueTypes, PopWire, queueVars
  <2>4. UplinkTypes(R)'
    <3>1. Head(wires) \in HeldOf(R)
      BY <1>18, SeqParts, NoWireTypes DEF PopWire, QueueTypes
    <3>2. [uplink[s] EXCEPT !.hand = Head(wires)] \in UplinkOf(R)
      BY <3>1 DEF UplinkTypes, UplinkOf
    <3>3. uplink' = [uplink EXCEPT ![s] = [uplink[s] EXCEPT !.hand = Head(wires)]]
      BY <1>18 DEF PopWire, UplinkTypes
    <3> QED BY <3>2, <3>3 DEF UplinkTypes
  <2>5. IngressTypes(R)'
    BY <1>18 DEF IngressTypes, PopWire
  <2>6. KeyTypes'
    BY <1>18 DEF KeyTypes, PopWire, nodeVars
  <2>7. NodeTypes(R)'
    BY <1>18 DEF NodeTypes, PopWire, nodeVars
  <2>8. JobTypes(R)'
    BY <1>18 DEF JobTypes, PopWire, To
  <2>9. PastTypes'
    BY <1>18 DEF PastTypes, PopWire, pastVars
  <2> QED BY <2>1, <2>2, <2>3, <2>4, <2>5, <2>6, <2>7, <2>8, <2>9
             DEF ConfigTypes
<1>19. ASSUME NEW s \in Session, Drained(s)
      PROVE  ConfigTypes(R)'
  <2>1. ChangeTypes(R)'
    BY <1>19 DEF ChangeTypes, Drained, rowVars
  <2>2. StatusTypes(R)'
    BY <1>19 DEF StatusTypes, Drained, rowVars
  <2>3. QueueTypes(R)'
    BY <1>19 DEF QueueTypes, Drained, queueVars
  <2>4. UplinkTypes(R)'
    <3>1. [uplink[s] EXCEPT !.flush = FALSE] \in UplinkOf(R)
      BY DEF UplinkTypes, UplinkOf
    <3>2. uplink' = [uplink EXCEPT ![s] = [uplink[s] EXCEPT !.flush = FALSE]]
      BY <1>19 DEF Drained
    <3> QED BY <3>1, <3>2 DEF UplinkTypes
  <2>5. IngressTypes(R)'
    BY <1>19 DEF IngressTypes, Drained
  <2>6. KeyTypes'
    BY <1>19 DEF KeyTypes, Drained, nodeVars
  <2>7. NodeTypes(R)'
    BY <1>19 DEF NodeTypes, Drained, nodeVars
  <2>8. JobTypes(R)'
    BY <1>19 DEF JobTypes, Drained, To
  <2>9. PastTypes'
    BY <1>19 DEF PastTypes, Drained, pastVars
  <2> QED BY <2>1, <2>2, <2>3, <2>4, <2>5, <2>6, <2>7, <2>8, <2>9
             DEF ConfigTypes
<1>20. ASSUME NEW s \in Session, SendWire(s)
      PROVE  ConfigTypes(R)'
  <2>1. ChangeTypes(R)'
    BY <1>20 DEF ChangeTypes, SendWire, Receive, Install, rowVars
  <2>2. StatusTypes(R)'
    BY <1>20 DEF StatusTypes, SendWire, Receive, Install, rowVars
  <2>3. QueueTypes(R)'
    BY <1>20 DEF QueueTypes, SendWire, Receive, Install, queueVars
  <2>4. UplinkTypes(R)'
    <3>1. [uplink[s] EXCEPT !.hand = NoWire] \in UplinkOf(R)
      BY NoWireTypes DEF UplinkTypes, UplinkOf
    <3>2. uplink' = [uplink EXCEPT ![s] = [uplink[s] EXCEPT !.hand = NoWire]]
      BY <1>20 DEF SendWire
    <3> QED BY <3>1, <3>2 DEF UplinkTypes
  <2>5. IngressTypes(R)'
    BY <1>20 DEF IngressTypes, SendWire, Receive, Install
  <2>6. KeyTypes'
    BY <1>20 DEF KeyTypes, SendWire, Receive, Install, nodeVars
  <2>7. NodeTypes(R)'
    <3>1. uplink[s].hand \in HeldOf(R)
      BY DEF UplinkTypes, UplinkOf
    <3>2. CASE link # s
      BY <1>20, <3>2 DEF SendWire, NodeTypes
    <3>3. CASE link = s
      BY <1>20, <3>1, <3>3, SendTypes DEF SendWire
    <3> QED BY <3>2, <3>3
  <2>8. JobTypes(R)'
    BY <1>20 DEF JobTypes, SendWire, To, Receive, Install
  <2>9. PastTypes'
    BY <1>20 DEF PastTypes, SendWire, Receive, Install, pastVars
  <2> QED BY <2>1, <2>2, <2>3, <2>4, <2>5, <2>6, <2>7, <2>8, <2>9
             DEF ConfigTypes
<1>21. ASSUME SendAnswer
      PROVE  ConfigTypes(R)'
  <2>1. ChangeTypes(R)'
    BY <1>21 DEF ChangeTypes, SendAnswer, Publish, Flushed, IsOpen, Readable,
       rowVars
  <2>2. StatusTypes(R)'
    BY <1>21 DEF StatusTypes, SendAnswer, Publish, Flushed, IsOpen, Readable,
       rowVars
  <2>3. QueueTypes(R)'
    BY <1>21 DEF QueueTypes, SendAnswer, Publish, Flushed, IsOpen, Readable,
       queueVars
  <2>4. UplinkTypes(R)'
    BY <1>21, UplinkParts, Builders DEF SendAnswer, Readable, UplinkTypes,
       KeyTypes
  <2>5. IngressTypes(R)'
    <3>1. answer \in MessageOf(R) /\ link \in Session
      BY <1>21 DEF SendAnswer, Readable, KeyTypes, MessageOf, AnswerOf, OfKind, NodeTypes
    <3> QED BY <1>21, <3>1, Published DEF SendAnswer, IngressTypes
  <2>6. KeyTypes'
    BY <1>21 DEF KeyTypes, SendAnswer, Publish, Flushed, IsOpen, Readable,
       nodeVars
  <2>7. NodeTypes(R)'
    BY <1>21, NoWireTypes DEF SendAnswer, NodeTypes, nodeVars
  <2>8. JobTypes(R)'
    BY <1>21 DEF JobTypes, SendAnswer, To, Publish, Flushed, IsOpen, Readable
  <2>9. PastTypes'
    BY <1>21 DEF PastTypes, SendAnswer, Publish, Flushed, IsOpen, Readable,
       pastVars
  <2> QED BY <2>1, <2>2, <2>3, <2>4, <2>5, <2>6, <2>7, <2>8, <2>9
             DEF ConfigTypes
<1>22. ASSUME NEW s \in Session, ReadRest(s)
      PROVE  ConfigTypes(R)'
  <2>1. ChangeTypes(R)'
    BY <1>22 DEF ChangeTypes, ReadRest, Publish, Flushed, Readable,
       rowVars
  <2>2. StatusTypes(R)'
    BY <1>22 DEF StatusTypes, ReadRest, Publish, Flushed, Readable,
       rowVars
  <2>3. QueueTypes(R)'
    BY <1>22 DEF QueueTypes, ReadRest, Publish, Flushed, Readable,
       queueVars
  <2>4. UplinkTypes(R)'
    <3>1. Flushed(s)[s] \in UplinkOf(R)
      BY UplinkParts
    <3>2. [Flushed(s)[s] EXCEPT !.rest = NoWire] \in UplinkOf(R)
      BY <3>1, NoWireTypes DEF UplinkOf
    <3>3. uplink' = [Flushed(s) EXCEPT ![s] = [Flushed(s)[s] EXCEPT !.rest = NoWire]]
      BY <1>22, UplinkParts DEF ReadRest
    <3> QED BY <3>2, <3>3, UplinkParts DEF UplinkTypes
  <2>5. IngressTypes(R)'
    <3>1. uplink[s].rest \in MessageOf(R)
      BY <1>22 DEF ReadRest, MessageOf, RestOf, OfKind, UplinkTypes, UplinkOf
    <3> QED BY <1>22, <3>1, Published DEF ReadRest, IngressTypes
  <2>6. KeyTypes'
    BY <1>22 DEF KeyTypes, ReadRest, Publish, Flushed, Readable,
       nodeVars
  <2>7. NodeTypes(R)'
    BY <1>22 DEF NodeTypes, ReadRest, Publish, Flushed, Readable,
       nodeVars
  <2>8. JobTypes(R)'
    BY <1>22 DEF JobTypes, ReadRest, To, Publish, Flushed, Readable
  <2>9. PastTypes'
    BY <1>22 DEF PastTypes, ReadRest, Publish, Flushed, Readable,
       pastVars
  <2> QED BY <2>1, <2>2, <2>3, <2>4, <2>5, <2>6, <2>7, <2>8, <2>9
             DEF ConfigTypes
<1>23. ASSUME SendReport
      PROVE  ConfigTypes(R)'
  <2>1. ChangeTypes(R)'
    BY <1>23 DEF ChangeTypes, SendReport, Publish, Flushed, IsOpen, Readable,
       rowVars
  <2>2. StatusTypes(R)'
    BY <1>23 DEF StatusTypes, SendReport, Publish, Flushed, IsOpen, Readable,
       rowVars
  <2>3. QueueTypes(R)'
    BY <1>23 DEF QueueTypes, SendReport, Publish, Flushed, IsOpen, Readable,
       queueVars
  <2>4. UplinkTypes(R)'
    BY <1>23, NoWireTypes, UplinkParts, Builders DEF SendReport, UplinkTypes,
       UplinkOf, KeyTypes, Flushed, Readable, IsOpen
  <2>5. IngressTypes(R)'
    <3>1. [kind |-> "report", rev |-> 0, content |-> 0] \in MessageOf(R) /\ link \in Session
      BY <1>23 DEF MessageOf, OfKind, SendReport, Readable, KeyTypes
    <3> QED BY <1>23, <3>1, Published DEF SendReport, IngressTypes
  <2>6. KeyTypes'
    BY <1>23 DEF KeyTypes, SendReport, Publish, Flushed, IsOpen, Readable,
       nodeVars
  <2>7. NodeTypes(R)'
    BY <1>23 DEF NodeTypes, SendReport, Publish, Flushed, IsOpen, Readable,
       nodeVars
  <2>8. JobTypes(R)'
    BY <1>23 DEF JobTypes, SendReport, To, Publish, Flushed, IsOpen, Readable
  <2>9. PastTypes'
    BY <1>23 DEF PastTypes, SendReport, Publish, Flushed, IsOpen, Readable,
       pastVars
  <2> QED BY <2>1, <2>2, <2>3, <2>4, <2>5, <2>6, <2>7, <2>8, <2>9
             DEF ConfigTypes
<1>24. ASSUME Heartbeat
      PROVE  ConfigTypes(R)'
  <2>1. ChangeTypes(R)'
    BY <1>24 DEF ChangeTypes, Heartbeat, Publish, Readable, IsOpen, rowVars
  <2>2. StatusTypes(R)'
    BY <1>24 DEF StatusTypes, Heartbeat, Publish, Readable, IsOpen, rowVars
  <2>3. QueueTypes(R)'
    BY <1>24 DEF QueueTypes, Heartbeat, Publish, Readable, IsOpen, queueVars
  <2>4. UplinkTypes(R)'
    BY <1>24 DEF UplinkTypes, Heartbeat, Publish, Readable, IsOpen
  <2>5. IngressTypes(R)'
    <3>1. [kind |-> "beat", rev |-> installed.rev, content |-> 0] \in MessageOf(R)
          /\ link \in Session
      BY <1>24 DEF MessageOf, OfKind, Heartbeat, Readable, KeyTypes, NodeTypes
    <3> QED BY <1>24, <3>1, Published DEF Heartbeat, IngressTypes
  <2>6. KeyTypes'
    BY <1>24 DEF KeyTypes, Heartbeat, Publish, Readable, IsOpen, nodeVars
  <2>7. NodeTypes(R)'
    BY <1>24 DEF NodeTypes, Heartbeat, Publish, Readable, IsOpen, nodeVars
  <2>8. JobTypes(R)'
    <3>1. link \in Builder /\ installed.rev \in R
      BY <1>24, Builders DEF Heartbeat, Readable, KeyTypes, NodeTypes
    <3>2. [job[link] EXCEPT !.at = "look", !.rev = installed.rev] \in JobOf(R)
      BY <3>1 DEF JobTypes, JobOf, JobStage
    <3>3. job' = [job EXCEPT ![link] = [job[link] EXCEPT !.at = "look", !.rev = installed.rev]]
      BY <1>24, <3>1 DEF Heartbeat, JobTypes
    <3> QED BY <3>1, <3>2, <3>3 DEF JobTypes
  <2>9. PastTypes'
    BY <1>24 DEF PastTypes, Heartbeat, Publish, Readable, IsOpen, pastVars
  <2> QED BY <2>1, <2>2, <2>3, <2>4, <2>5, <2>6, <2>7, <2>8, <2>9
             DEF ConfigTypes
<1>25. ASSUME NEW s \in Session, ProjectIngress(s)
      PROVE  ConfigTypes(R)'
  <2>1. ChangeTypes(R)'
    BY <1>25 DEF ChangeTypes, ProjectIngress, Lost, rowVars
  <2>2. StatusTypes(R)'
    <3>1. config' = Projected(Head(incoming[s])) /\ Head(incoming[s]) \in MessageOf(R)
          /\ Head(incoming[s]).kind # "report"
      BY <1>25, Consumed DEF ProjectIngress
    <3> QED BY <3>1, ProjectedTypes DEF StatusTypes
  <2>3. QueueTypes(R)'
    BY <1>25 DEF QueueTypes, ProjectIngress, Lost, queueVars
  <2>4. UplinkTypes(R)'
    BY <1>25 DEF UplinkTypes, ProjectIngress, Lost
  <2>5. IngressTypes(R)'
    <3>1. incoming' = incoming \/ incoming' = [incoming EXCEPT ![s] = Tail(@)]
      BY <1>25 DEF ProjectIngress
    <3>2. incoming[s] # <<>>
      BY <1>25 DEF ProjectIngress
    <3>3. CASE incoming' = incoming
      BY <3>3 DEF IngressTypes
    <3>4. CASE incoming' = [incoming EXCEPT ![s] = Tail(@)]
      <4>1. [incoming EXCEPT ![s] = Tail(@)] \in [Session -> Seq(MessageOf(R))]
        BY <3>2, Consumed
      <4> QED BY <4>1, <3>4 DEF IngressTypes
    <3> QED BY <3>1, <3>3, <3>4
  <2>6. KeyTypes'
    BY <1>25 DEF KeyTypes, ProjectIngress, Lost, nodeVars
  <2>7. NodeTypes(R)'
    BY <1>25 DEF NodeTypes, ProjectIngress, Lost, nodeVars
  <2>8. JobTypes(R)'
    BY <1>25 DEF JobTypes, ProjectIngress, To, Lost
  <2>9. PastTypes'
    BY <1>25 DEF PastTypes, ProjectIngress, Lost, pastVars
  <2> QED BY <2>1, <2>2, <2>3, <2>4, <2>5, <2>6, <2>7, <2>8, <2>9
             DEF ConfigTypes
<1>26. ASSUME NEW s \in Session, ProjectReport(s)
      PROVE  ConfigTypes(R)'
  <2>1. ChangeTypes(R)'
    BY <1>26 DEF ChangeTypes, ProjectReport, rowVars
  <2>2. StatusTypes(R)'
    BY <1>26 DEF StatusTypes, ProjectReport, rowVars
  <2>3. QueueTypes(R)'
    BY <1>26 DEF QueueTypes, ProjectReport, queueVars
  <2>4. UplinkTypes(R)'
    BY <1>26 DEF UplinkTypes, ProjectReport
  <2>5. IngressTypes(R)'
    BY <1>26 DEF IngressTypes, ProjectReport
  <2>6. KeyTypes'
    BY <1>26 DEF KeyTypes, ProjectReport, nodeVars
  <2>7. NodeTypes(R)'
    BY <1>26 DEF NodeTypes, ProjectReport, nodeVars
  <2>8. JobTypes(R)'
    BY <1>26, JobParts, Builders DEF ProjectReport, JobTypes, JobStage
  <2>9. PastTypes'
    BY <1>26 DEF PastTypes, ProjectReport, pastVars
  <2> QED BY <2>1, <2>2, <2>3, <2>4, <2>5, <2>6, <2>7, <2>8, <2>9
             DEF ConfigTypes
<1> QED
  BY <1>1, <1>2, <1>3, <1>4, <1>5, <1>6, <1>7, <1>8, <1>9, <1>10, <1>11, <1>12,
     <1>13, <1>14, <1>15, <1>16, <1>17, <1>18, <1>19, <1>20, <1>21, <1>22,
     <1>23, <1>24, <1>25, <1>26, <1>27, <1>28, <1>29, <1>30, <1>31
     DEF NextEdgeConfig, Work, Connect, Serve, GiveUp, NodeSends

LEMMA ConfigTypesGrow ==
  ASSUME NEW R, NEW S, R \subseteq S, ConfigTypes(R)
  PROVE  ConfigTypes(S)
<1>1. WireOf(R) \subseteq WireOf(S) /\ MessageOf(R) \subseteq MessageOf(S)
      /\ AnswerOf(R) \subseteq AnswerOf(S) /\ RestOf(R) \subseteq RestOf(S)
  BY DEF WireOf, MessageOf, AnswerOf, RestOf, OfKind
<1>2. HeldOf(R) \subseteq HeldOf(S)
  BY <1>1 DEF HeldOf
<1>3. UplinkOf(R) \subseteq UplinkOf(S)
  BY <1>1, <1>2 DEF UplinkOf
<1>4. JobOf(R) \subseteq JobOf(S)
  BY DEF JobOf
<1>5. Seq(WireOf(R)) \subseteq Seq(WireOf(S))
  BY <1>1
<1>6. Seq(MessageOf(R)) \subseteq Seq(MessageOf(S))
  BY <1>1
<1>7. ChangeTypes(S) /\ StatusTypes(S)
  BY DEF ConfigTypes, ChangeTypes, StatusTypes
<1>8. QueueTypes(S)
  BY <1>5 DEF ConfigTypes, QueueTypes
<1>9. UplinkTypes(S)
  BY <1>3 DEF ConfigTypes, UplinkTypes
<1>10. IngressTypes(S)
  BY <1>6 DEF ConfigTypes, IngressTypes
<1>11. NodeTypes(S)
  BY <1>1, <1>2 DEF ConfigTypes, NodeTypes
<1>12. JobTypes(S)
  BY <1>4 DEF ConfigTypes, JobTypes
<1> QED BY <1>7, <1>8, <1>9, <1>10, <1>11, <1>12 DEF ConfigTypes

\* Sessions that differ in no more than what they are to look at.
Alike(f) ==
  \A s \in Session : /\ f[s].hand = uplink[s].hand /\ f[s].rest = uplink[s].rest
                     /\ f[s].state = uplink[s].state

LEMMA AlikeParts ==
  ASSUME NEW R, UplinkTypes(R), NEW s \in Session
  PROVE  /\ Alike(Flushed(s))
         /\ \A x \in {"failed", "closed"} :
              /\ Becomes(s, x)[s].hand = NoWire /\ Becomes(s, x)[s].rest = NoWire
              /\ Becomes(s, x)[s].state = x
              /\ \A t \in Session \ {s} : Becomes(s, x)[t] = uplink[t]
<1>1. Alike(Flushed(s))
  BY DEF Alike, Flushed, UplinkTypes, UplinkOf
<1>2. uplink[s] \in UplinkOf(R)
  BY DEF UplinkTypes
<1>3. ASSUME NEW x \in {"failed", "closed"}
      PROVE  Becomes(s, x) = [uplink EXCEPT ![s] =
          [uplink[s] EXCEPT !.state = x, !.flush = FALSE, !.hand = NoWire, !.rest = NoWire]]
  BY DEF Becomes, UplinkTypes
<1>4. ASSUME NEW x \in {"failed", "closed"}
      PROVE  LET u == [uplink[s] EXCEPT !.state = x, !.flush = FALSE, !.hand = NoWire,
                                        !.rest = NoWire]
             IN  u.hand = NoWire /\ u.rest = NoWire /\ u.state = x
  BY <1>2 DEF UplinkOf
<1> QED BY <1>1, <1>3, <1>4 DEF UplinkTypes

\* Every step but those of a connection and of the queue leaves alone what is on its
\* way to the node.
Aside ==
  /\ Alike(uplink')
  /\ UNCHANGED <<queueVars, holder, claimant, link, staged, installed, returned>>

Accepts(s) == Dial(s) \/ PublishHello(s) \/ ClaimSession(s)
Ends(s) == EndSession(s) \/ TurnAway(s) \/ SessionDies(s)
SessionStep(s) ==
  \/ Accepts(s) \/ Greet(s) \/ Ends(s) \/ ReturnWire(s) \/ LoseKey(s)
  \/ PopWire(s) \/ SendWire(s) \/ ReadRest(s)

LEMMA ConfigSteps ==
  ASSUME NEW R, ConfigTypes(R), NextEdgeConfig
  PROVE  \/ Aside \/ BreakLink \/ HolderExpires
         \/ \E j \in Builder : ReplaceQueue(j)
         \/ \E s \in Session : SessionStep(s)
<1> UplinkTypes(R) /\ KeyTypes
  BY DEF ConfigTypes
<1> USE DEF Aside, queueVars, nodeVars, rowVars, pastVars
<1>1. uplink' = uplink => Alike(uplink')
  BY DEF Alike
<1>2. ASSUME NEW j \in Builder, EndJob(j) PROVE Alike(uplink')
  BY <1>1, <1>2, AlikeParts DEF EndJob
<1>3. ASSUME NEW e \in Editor, Edit(e) \/ Choose(e) \/ Raise(e) PROVE Aside
  BY <1>1, <1>3 DEF Edit, Choose, Raise
<1>4. ASSUME NEW j \in Builder, Look(j) \/ Build(j) PROVE Aside
  BY <1>1, <1>2, <1>4 DEF Look, Build
<1>5. ASSUME NEW j \in Builder, Refuse(j) \/ ClaimReplay(j) \/ RecordRevision(j) PROVE Aside
  BY <1>1, <1>2, <1>5 DEF Refuse, ClaimReplay, RecordRevision
<1>6. ASSUME NEW j \in Builder, NotifyNode(j) PROVE Aside
  <2>1. Alike(uplink')
    BY <1>6 DEF NotifyNode, Alike, IsOpen, UplinkTypes, UplinkOf
  <2> QED BY <1>6, <2>1 DEF NotifyNode
<1>7. ASSUME NEW j \in Builder, JobFails(j) PROVE Aside
  BY <1>1, <1>7 DEF JobFails
<1>8. ASSUME NEW s \in Session, Drained(s) PROVE Aside
  <2>1. Alike(uplink')
    BY <1>8 DEF Drained, Alike, UplinkTypes, UplinkOf
  <2> QED BY <1>8, <2>1 DEF Drained
<1>9. ASSUME NEW s \in Session, ProjectIngress(s) \/ ProjectReport(s) PROVE Aside
  BY <1>1, <1>9 DEF ProjectIngress, ProjectReport
<1>10. SendAnswer \/ Heartbeat => Aside
  BY <1>1, AlikeParts DEF SendAnswer, Heartbeat, Readable, IsOpen, KeyTypes
<1>11. SendReport => Aside
  <2>1. SUFFICES ASSUME SendReport PROVE Alike(uplink')
    BY DEF SendReport
  <2>2. link \in Session
    BY <2>1 DEF SendReport, Readable, IsOpen, KeyTypes
  <2>3. Flushed(link) \in [Session -> UplinkOf(R)]
    BY <2>2 DEF Flushed, UplinkTypes, UplinkOf
  <2>4. Alike([Flushed(link) EXCEPT ![link].seen = TRUE])
    BY <2>2, <2>3, AlikeParts DEF Alike, UplinkOf
  <2> QED BY <2>1, <2>4 DEF SendReport
<1> QED
  BY <1>3, <1>4, <1>5, <1>6, <1>7, <1>8, <1>9, <1>10, <1>11, Builders
  DEF NextEdgeConfig, Work, Connect, Serve, GiveUp, NodeSends, SessionStep, Accepts, Ends

\* What the other steps do to sessions.
LEMMA SessionSteps ==
  ASSUME NEW R, UplinkTypes(R), KeyTypes, NEW s \in Session
  PROVE  /\ SessionStep(s) => \A t \in Session \ {s} : uplink'[t] = uplink[t]
         /\ Dial(s) => /\ uplink'[s].hand = uplink[s].hand
                       /\ uplink'[s].rest.kind = "hello"
                       /\ uplink[s].state = "new" /\ uplink'[s].state = "hello"
         /\ PublishHello(s) => /\ uplink'[s].hand = uplink[s].hand
                               /\ uplink'[s].rest = NoWire
                               /\ uplink[s].state = "hello" /\ uplink'[s].state = "claim"
         /\ ClaimSession(s) => /\ uplink'[s].hand = uplink[s].hand
                               /\ uplink'[s].rest = uplink[s].rest
                               /\ uplink[s].state = "claim" /\ uplink'[s].state = "greet"
         /\ Greet(s) => /\ uplink'[s].hand = uplink[s].hand
                        /\ uplink'[s].rest = uplink[s].rest
                        /\ uplink[s].state = "greet"
                        /\ uplink'[s].state = "open" \/ (link # s /\ uplink'[s].state = "closed")
         /\ Ends(s) => /\ uplink'[s].hand = NoWire /\ uplink'[s].rest = NoWire
                       /\ uplink'[s].state = "closed"
         /\ ReturnWire(s) => /\ uplink'[s].hand = NoWire /\ uplink'[s].rest = NoWire
                             /\ uplink'[s].state = "failed"
         /\ LoseKey(s) => /\ uplink'[s].hand = uplink[s].hand /\ uplink'[s].rest = NoWire
                          /\ uplink'[s].state = "failed"
         /\ PopWire(s) => /\ uplink'[s].hand = Head(wires)
                          /\ uplink'[s].rest = uplink[s].rest
                          /\ uplink'[s].state = uplink[s].state
         /\ SendWire(s) => /\ uplink'[s].hand = NoWire /\ uplink'[s].rest = uplink[s].rest
                           /\ uplink'[s].state = uplink[s].state
         /\ ReadRest(s) => /\ uplink'[s].hand = uplink[s].hand /\ uplink'[s].rest = NoWire
                           /\ uplink'[s].state = uplink[s].state
<1> uplink[s] \in UplinkOf(R)
  BY DEF UplinkTypes
<1> USE DEF UplinkTypes, UplinkOf, StateOf
<1> DEFINE Others == \A t \in Session \ {s} : uplink'[t] = uplink[t]
<1>1. Dial(s) => /\ Others /\ uplink'[s].hand = uplink[s].hand
                 /\ uplink'[s].rest.kind = "hello"
                 /\ uplink[s].state = "new" /\ uplink'[s].state = "hello"
  BY DEF Dial
<1>2. PublishHello(s) => /\ Others /\ uplink'[s].hand = uplink[s].hand
                         /\ uplink'[s].rest = NoWire
                         /\ uplink[s].state = "hello" /\ uplink'[s].state = "claim"
  BY DEF PublishHello
<1>3. ClaimSession(s) => /\ Others /\ uplink'[s].hand = uplink[s].hand
                         /\ uplink'[s].rest = uplink[s].rest
                         /\ uplink[s].state = "claim" /\ uplink'[s].state = "greet"
  BY DEF ClaimSession
<1>4. Greet(s) => /\ Others /\ uplink'[s].hand = uplink[s].hand
                  /\ uplink'[s].rest = uplink[s].rest
                  /\ uplink[s].state = "greet"
                  /\ uplink'[s].state = "open" \/ (link # s /\ uplink'[s].state = "closed")
  BY DEF Greet
<1>5. Ends(s) => /\ Others /\ uplink'[s].hand = NoWire /\ uplink'[s].rest = NoWire
                 /\ uplink'[s].state = "closed"
  <2>1. Ends(s) => uplink' = Becomes(s, "closed")
    BY DEF Ends, EndSession, TurnAway, SessionDies
  <2> QED BY <2>1, AlikeParts
<1>6. ReturnWire(s) => /\ Others /\ uplink'[s].hand = NoWire /\ uplink'[s].rest = NoWire
                       /\ uplink'[s].state = "failed"
  BY AlikeParts DEF ReturnWire
<1>7. LoseKey(s) => /\ Others /\ uplink'[s].hand = uplink[s].hand
                    /\ uplink'[s].rest = NoWire /\ uplink'[s].state = "failed"
  <2>1. SUFFICES ASSUME LoseKey(s)
                 PROVE  /\ Others /\ uplink'[s].hand = uplink[s].hand
                        /\ uplink'[s].rest = NoWire /\ uplink'[s].state = "failed"
    OBVIOUS
  <2>2. uplink' = [Becomes(s, "failed") EXCEPT ![s].hand = uplink[s].hand]
    BY <2>1 DEF LoseKey
  <2>3. Becomes(s, "failed") = [uplink EXCEPT ![s] =
          [uplink[s] EXCEPT !.state = "failed", !.flush = FALSE, !.hand = NoWire,
                            !.rest = NoWire]]
    BY DEF Becomes
  <2>4. uplink' = [uplink EXCEPT ![s] = [uplink[s] EXCEPT !.state = "failed",
          !.flush = FALSE, !.hand = uplink[s].hand, !.rest = NoWire]]
    BY <2>2, <2>3
  <2>5. LET u == [uplink[s] EXCEPT !.state = "failed", !.flush = FALSE,
                                   !.hand = uplink[s].hand, !.rest = NoWire]
        IN  u.hand = uplink[s].hand /\ u.rest = NoWire /\ u.state = "failed"
    OBVIOUS
  <2> QED BY <2>4, <2>5
<1>8. PopWire(s) => /\ Others /\ uplink'[s].hand = Head(wires)
                    /\ uplink'[s].rest = uplink[s].rest
                    /\ uplink'[s].state = uplink[s].state
  BY DEF PopWire
<1>9. SendWire(s) => /\ Others /\ uplink'[s].hand = NoWire
                     /\ uplink'[s].rest = uplink[s].rest
                     /\ uplink'[s].state = uplink[s].state
  BY DEF SendWire
<1>10. ReadRest(s) => /\ Others /\ uplink'[s].hand = uplink[s].hand
                      /\ uplink'[s].rest = NoWire /\ uplink'[s].state = uplink[s].state
  <2>1. ReadRest(s) => uplink' = [Flushed(s) EXCEPT ![s].rest = NoWire]
    BY DEF ReadRest
  <2>2. Flushed(s) \in [Session -> UplinkOf(R)]
    BY DEF Flushed
  <2>3. \A t \in Session \ {s} : Flushed(s)[t] = uplink[t]
    BY DEF Flushed
  <2>4. Flushed(s)[s].hand = uplink[s].hand /\ Flushed(s)[s].state = uplink[s].state
    BY AlikeParts DEF Alike
  <2> QED BY <2>1, <2>2, <2>3, <2>4
<1> HIDE DEF UplinkTypes, UplinkOf, StateOf
<1>11. SessionStep(s) => Others
  BY <1>1, <1>2, <1>3, <1>4, <1>5, <1>6, <1>7, <1>8, <1>9, <1>10, Zenon
     DEF SessionStep, Accepts
<1> QED BY <1>1, <1>2, <1>3, <1>4, <1>5, <1>6, <1>7, <1>8, <1>9, <1>10, <1>11, Zenon

LEMMA BreakParts ==
  ASSUME NEW R, UplinkTypes(R), KeyTypes, BreakLink
  PROVE  /\ link \in Session /\ link' = NoSession
         /\ \A s \in Session : /\ uplink'[s].hand = uplink[s].hand
                               /\ uplink'[s].state = uplink[s].state
                               /\ uplink'[s].rest \in {uplink[s].rest, answer, NoWire}
                               /\ uplink[s].state = "open" \/ uplink'[s].rest = uplink[s].rest
<1>1. link \in Session /\ link' = NoSession
  BY DEF BreakLink, KeyTypes
<1>2. CASE uplink' = uplink
  BY <1>1, <1>2
<1>3. ASSUME NEW m \in {answer, NoWire}, IsOpen(link),
             uplink' = [uplink EXCEPT ![link].rest = m]
      PROVE  \A s \in Session : /\ uplink'[s].hand = uplink[s].hand
                                /\ uplink'[s].state = uplink[s].state
                                /\ uplink'[s].rest \in {uplink[s].rest, answer, NoWire}
                                /\ uplink[s].state = "open" \/ uplink'[s].rest = uplink[s].rest
  <2>1. uplink[link].state = "open" /\ uplink[link] \in UplinkOf(R)
    BY <1>1, <1>3 DEF IsOpen, UplinkTypes
  <2>2. \A s \in Session \ {link} : uplink'[s] = uplink[s]
    BY <1>3 DEF UplinkTypes
  <2>3. /\ uplink'[link].hand = uplink[link].hand /\ uplink'[link].state = uplink[link].state
        /\ uplink'[link].rest = m
    BY <1>1, <1>3, <2>1 DEF UplinkTypes, UplinkOf
  <2> QED BY <1>1, <2>1, <2>2, <2>3
<1> QED BY <1>1, <1>2, <1>3 DEF BreakLink

\* The session the node is connected by is being accepted or open, the last that has
\* claimed the key has it until it has ended, only a session that is or was open has a
\* wire at hand, and one that has returned a wire has no other.
KeyInv ==
  /\ HelloAtHand
  /\ link # NoSession => uplink[link].state \in {"hello", "claim", "greet", "open"}
  /\ \A s \in Session :
       /\ claimant = s /\ uplink[s].state \in {"greet", "open", "failed"} => holder = s
       /\ uplink[s].state \in {"new", "hello", "claim", "greet"} => uplink[s].hand = NoWire
       /\ s \in returned => /\ uplink[s].state \in {"failed", "closed"}
                            /\ uplink[s].hand = NoWire

\* What a step that is one session's must keep for the others, and do for its own.
LEMMA KeyStep ==
  ASSUME NEW R, ConfigTypes(R), KeyInv, NEW s \in Session,
         \A t \in Session \ {s} : uplink'[t] = uplink[t],
         uplink'[s].state = "hello" => uplink'[s].rest.kind = "hello",
         link' = NoSession \/ link' = link \/ link' = s,
         link' = s => uplink'[s].state \in {"hello", "claim", "greet", "open"},
         \/ claimant' = s /\ holder' = s
         \/ claimant' = claimant /\ (holder' = holder \/ holder = s),
         uplink'[s].state \in {"greet", "open", "failed"}
           => (holder' = holder /\ uplink[s].state \in {"greet", "open", "failed"})
              \/ holder' = s,
         uplink'[s].state \in {"new", "hello", "claim", "greet"} => uplink'[s].hand = NoWire,
         returned' \subseteq returned \cup {s},
         s \in returned' => /\ uplink'[s].state \in {"failed", "closed"}
                            /\ uplink'[s].hand = NoWire
  PROVE  KeyInv'
<1> KeyTypes /\ NoSession \notin Session
  BY Builders DEF ConfigTypes
<1>1. HelloAtHand'
  BY DEF HelloAtHand, KeyInv
<1>2. link' # NoSession => uplink'[link'].state \in {"hello", "claim", "greet", "open"}
  BY DEF KeyInv, KeyTypes
<1>3. ASSUME NEW t \in Session
      PROVE  /\ claimant' = t /\ uplink'[t].state \in {"greet", "open", "failed"}
                => holder' = t
             /\ uplink'[t].state \in {"new", "hello", "claim", "greet"}
                => uplink'[t].hand = NoWire
             /\ t \in returned' => /\ uplink'[t].state \in {"failed", "closed"}
                                   /\ uplink'[t].hand = NoWire
  <2>1. CASE t = s
    BY <2>1 DEF KeyInv
  <2>2. CASE t # s
    BY <2>2 DEF KeyInv
  <2> QED BY <2>1, <2>2
<1> QED BY <1>1, <1>2, <1>3 DEF KeyInv

LEMMA ConfigStepKeys ==
  ASSUME NEW R, ConfigTypes(R), KeyInv, NextEdgeConfig
  PROVE  KeyInv'
<1> UplinkTypes(R) /\ KeyTypes
  BY DEF ConfigTypes
<1> NoSession \notin Session
  BY Builders
<1> USE DEF nodeVars, pastVars
<1>1. CASE Aside
  BY <1>1 DEF Aside, Alike, KeyInv, KeyTypes, HelloAtHand
<1>2. CASE HolderExpires
  <2>1. holder \in Session /\ uplink[holder].state = "closed"
    BY <1>2 DEF HolderExpires, KeyTypes
  <2> QED BY <1>2, <2>1 DEF HolderExpires, KeyInv, HelloAtHand
<1>3. CASE BreakLink
  <2>1. holder' = holder /\ claimant' = claimant /\ returned' = returned
    BY <1>3 DEF BreakLink
  <2>2. HelloAtHand'
    BY <1>3, BreakParts DEF KeyInv, HelloAtHand
  <2> QED BY <1>3, <2>1, <2>2, BreakParts DEF KeyInv
<1>4. ASSUME NEW j \in Builder, ReplaceQueue(j) PROVE KeyInv'
  BY <1>4 DEF ReplaceQueue, KeyInv, HelloAtHand
<1>5. ASSUME NEW s \in Session, SessionStep(s) PROVE KeyInv'
  <2>0. \A t \in Session \ {s} : uplink'[t] = uplink[t]
    BY <1>5, SessionSteps
  <2>1. CASE Dial(s)
    <3>1. link' = s /\ UNCHANGED <<holder, claimant, returned>> /\ s \notin returned
          /\ uplink[s].hand = NoWire
      BY <2>1, SessionSteps DEF Dial, KeyInv
    <3> QED BY <2>0, <2>1, <3>1, SessionSteps, KeyStep
  <2>2. CASE PublishHello(s)
    <3>1. UNCHANGED <<link, holder, claimant, returned>> /\ s \notin returned
          /\ uplink[s].hand = NoWire
      BY <2>2, SessionSteps DEF PublishHello, KeyInv
    <3> QED BY <2>0, <2>2, <3>1, SessionSteps, KeyStep
  <2>3. CASE ClaimSession(s)
    <3>1. /\ UNCHANGED <<link, returned>> /\ holder' = s /\ claimant' = s
          /\ s \notin returned /\ uplink[s].hand = NoWire
      BY <2>3, SessionSteps DEF ClaimSession, KeyInv
    <3> QED BY <2>0, <2>3, <3>1, SessionSteps, KeyStep
  <2>4. CASE Greet(s)
    <3>1. UNCHANGED <<link, holder, claimant, returned>> /\ s \notin returned
      BY <2>4, SessionSteps DEF Greet, KeyInv
    <3> QED BY <2>0, <2>4, <3>1, SessionSteps, KeyStep
  <2>5. CASE Ends(s)
    <3>1. /\ link' = NoSession \/ (link' = link /\ link # s)
          /\ UNCHANGED <<claimant, returned>> /\ (holder' = holder \/ holder = s)
      BY <2>5 DEF Ends, EndSession, TurnAway, SessionDies, Disconnects, Released
    <3> QED BY <2>0, <2>5, <3>1, SessionSteps, KeyStep
  <2>6. CASE ReturnWire(s)
    <3>1. /\ UNCHANGED <<link, holder, claimant>> /\ link # s /\ returned' = returned \cup {s}
          /\ uplink[s].state \in {"open", "failed"}
      BY <2>6 DEF ReturnWire, StateOf
    <3> QED BY <2>0, <2>6, <3>1, SessionSteps, KeyStep
  <2>7. CASE LoseKey(s)
    <3>1. /\ link' = NoSession \/ (link' = link /\ link # s)
          /\ UNCHANGED <<holder, claimant, returned>> /\ uplink[s].state = "open"
      BY <2>7 DEF LoseKey, Disconnects, IsOpen
    <3>2. s \notin returned
      BY <3>1 DEF KeyInv
    <3> QED BY <2>0, <2>7, <3>1, <3>2, SessionSteps, KeyStep
  <2>8. CASE PopWire(s) \/ SendWire(s) \/ ReadRest(s)
    <3>1. UNCHANGED <<link, holder, claimant, returned>> /\ uplink[s].state = "open"
      BY <2>8 DEF PopWire, SendWire, ReadRest, Readable, IsOpen
    <3>2. s \notin returned /\ uplink'[s].state = "open"
      BY <2>8, <3>1, SessionSteps DEF KeyInv
    <3> QED BY <2>0, <3>1, <3>2, KeyStep
  <2> QED BY <1>5, <2>1, <2>2, <2>3, <2>4, <2>5, <2>6, <2>7, <2>8 DEF SessionStep, Accepts
<1> QED BY <1>1, <1>2, <1>3, <1>4, <1>5, ConfigSteps

\* The places of a queue a wire returns to, and of one whose first wire is popped.
LEMMA QueuePlaces ==
  ASSUME NEW S, NEW q \in Seq(S), NEW x \in S
  PROVE  /\ Len(<<x>> \o q) = Len(q) + 1 /\ (<<x>> \o q)[1] = x
         /\ \A i \in 2 .. Len(q) + 1 : (<<x>> \o q)[i] = q[i - 1] /\ i - 1 \in 1 .. Len(q)
         /\ q # <<>> => /\ Head(q) = q[1] /\ 1 \in 1 .. Len(q) /\ Len(Tail(q)) = Len(q) - 1
                        /\ \A i \in 1 .. Len(q) - 1 : /\ Tail(q)[i] = q[i + 1]
                                                      /\ i + 1 \in 2 .. Len(q)
OBVIOUS

\* A step that only takes away of what is on its way to the node.
Still ==
  /\ UNCHANGED <<wires, fence, staged, installed, returned>>
  /\ \A s \in Session : uplink'[s].hand \in {uplink[s].hand, NoWire}
  /\ link' \in {link, NoSession} \/ (link' \in Session /\ uplink'[link'].hand = NoWire)

LEMMA StillSteps ==
  ASSUME NEW R, ConfigTypes(R), KeyInv, NextEdgeConfig
  PROVE  \/ Still
         \/ \E j \in Builder : ReplaceQueue(j)
         \/ \E s \in Session : ReturnWire(s) \/ PopWire(s) \/ SendWire(s)
<1> UplinkTypes(R) /\ KeyTypes
  BY DEF ConfigTypes
<1>1. Aside \/ HolderExpires => Still
  BY DEF Aside, Alike, HolderExpires, Still, queueVars, nodeVars, pastVars
<1>2. BreakLink => Still
  BY BreakParts DEF BreakLink, Still, queueVars
<1>3. ASSUME NEW s \in Session, Accepts(s) \/ Greet(s) PROVE Still
  <2>1. uplink'[s].hand = uplink[s].hand /\ \A t \in Session \ {s} : uplink'[t] = uplink[t]
    BY <1>3, SessionSteps DEF Accepts, SessionStep
  <2>2. UNCHANGED <<wires, fence, staged, installed, returned>>
    BY <1>3 DEF Accepts, Dial, PublishHello, ClaimSession, Greet, queueVars, nodeVars, pastVars
  <2>3. link' = link \/ (link' = s /\ uplink[s].hand = NoWire)
    BY <1>3, SessionSteps DEF Accepts, Dial, PublishHello, ClaimSession, Greet, nodeVars, KeyInv
  <2> QED BY <2>1, <2>2, <2>3 DEF Still
<1>4. ASSUME NEW s \in Session, Ends(s) \/ LoseKey(s) \/ ReadRest(s) PROVE Still
  <2>1. \A t \in Session : uplink'[t].hand \in {uplink[t].hand, NoWire}
    BY <1>4, SessionSteps DEF SessionStep
  <2>2. UNCHANGED <<wires, fence, staged, installed, returned>> /\ link' \in {link, NoSession}
    BY <1>4 DEF Ends, EndSession, TurnAway, SessionDies, LoseKey, ReadRest, Disconnects,
       queueVars, nodeVars, pastVars
  <2> QED BY <2>1, <2>2 DEF Still
<1>5. ASSUME NEW s \in Session, SessionStep(s)
      PROVE  Still \/ ReturnWire(s) \/ PopWire(s) \/ SendWire(s)
  BY <1>3, <1>4, <1>5 DEF SessionStep
<1> QED BY <1>1, <1>2, <1>5, ConfigSteps

\* What the node makes of a wire.
LEMMA ReceiveParts ==
  ASSUME NEW R, ConfigTypes(R), NEW s \in Session, SendWire(s)
  PROVE  LET w == uplink[s].hand IN
         /\ w \in WireOf(R) /\ UNCHANGED <<wires, fence, returned, link>>
         /\ \/ link # s /\ UNCHANGED <<staged, installed, answer>>
            \/ link = s /\ staged' = w /\ UNCHANGED <<installed, answer>>
            \/ /\ link = s /\ staged' = NoWire
               /\ \/ UNCHANGED installed /\ (answer' = answer \/ answer'.kind = "rejected")
                  \/ /\ staged = [w EXCEPT !.kind = "begin"]
                     /\ installed' = [rev |-> w.rev, content |-> w.content]
                     /\ answer' = [w EXCEPT !.kind = "applied"]
<1> DEFINE w == uplink[s].hand
<1>1. w \in WireOf(R)
  BY DEF ConfigTypes, UplinkTypes, UplinkOf, HeldOf, SendWire
<1>2. \A k : [w EXCEPT !.kind = k].kind = k
  BY <1>1 DEF WireOf, OfKind
<1> HIDE DEF w
<1>3. link = s => Receive(w)
  BY DEF SendWire, w
<1>4. link # s => UNCHANGED <<staged, installed, answer>>
  BY DEF SendWire
<1>5. UNCHANGED <<wires, fence, returned, link>>
  BY DEF SendWire, queueVars, pastVars
<1> QED BY <1>1, <1>2, <1>3, <1>4, <1>5 DEF Receive, Install, w

\* Nothing is ahead of the queue; what is in it belongs to one revision, but for a
\* wire that has returned.
FenceInv ==
  /\ \A i \in 1 .. Len(wires) : wires[i].rev <= fence
  /\ \A s \in Session : uplink[s].hand.rev <= fence
  /\ staged.rev <= fence /\ installed.rev <= fence
  /\ returned = {} => \A i \in 1 .. Len(wires) : wires[i].rev = fence
  /\ FewWiresReturn => \A i \in 2 .. Len(wires) : wires[i].rev = fence

\* Wires that are on their way to the node and are behind what it runs: there is none
\* but the one that has returned, and one is no snapshot.
Low(w) == w # NoWire /\ w.rev < installed.rev
LowQueue == \E i \in 1 .. Len(wires) : Low(wires[i])
LowHand == link # NoSession /\ Low(uplink[link].hand)
LowInv ==
  /\ returned = {} => ~LowQueue /\ ~LowHand /\ ~Low(staged)
  /\ FewWiresReturn => /\ ~(LowQueue /\ LowHand) /\ ~(LowQueue /\ Low(staged))
                       /\ ~(LowHand /\ Low(staged))

\* The parts of the types that comparing revisions needs.
LEMMA RevisionParts ==
  ASSUME NEW R \in SUBSET Nat, 0 \in R, ConfigTypes(R)
  PROVE  /\ fence \in Nat /\ installed.rev \in Nat /\ staged.rev \in Nat
         /\ wires \in Seq(WireOf(R)) /\ \A i \in 1 .. Len(wires) : wires[i] \in WireOf(R)
         /\ \A w \in WireOf(R) : w.rev \in Nat /\ w # NoWire
         /\ \A s \in Session : uplink[s].hand \in HeldOf(R) /\ uplink[s].hand.rev \in Nat
         /\ NoWire.rev = 0 /\ \A j \in Builder : job[j].rev \in Nat
<1>1. \A w \in WireOf(R) : w.rev \in Nat /\ w # NoWire
  <2>1. \A w \in WireOf(R) : w.rev \in Nat /\ w.kind # "none"
    BY DEF WireOf, OfKind
  <2>2. NoWire.kind = "none"
    BY DEF NoWire
  <2> QED BY <2>1, <2>2
<1>2. NoWire.rev = 0
  BY DEF NoWire
<1>3. \A s \in Session : uplink[s].hand \in HeldOf(R)
  BY DEF ConfigTypes, UplinkTypes, UplinkOf
<1>4. \A j \in Builder : job[j].rev \in Nat
  BY DEF ConfigTypes, JobTypes, JobOf
<1>5. staged \in HeldOf(R) /\ installed.rev \in Nat
  BY DEF ConfigTypes, NodeTypes
<1>6. wires \in Seq(WireOf(R)) /\ fence \in Nat
  BY DEF ConfigTypes, QueueTypes
<1> QED BY <1>1, <1>2, <1>3, <1>4, <1>5, <1>6 DEF HeldOf

LEMMA FewBefore == ASSUME returned \subseteq returned' PROVE FewWiresReturn' => FewWiresReturn
BY DEF FewWiresReturn

LEMMA ReturnParts ==
  ASSUME NEW R \in SUBSET Nat, 0 \in R, ConfigTypes(R), KeyInv, NEW s \in Session, ReturnWire(s)
  PROVE  /\ uplink[s].hand \in WireOf(R) /\ uplink'[s].hand = NoWire /\ link' = link /\ link # s
         /\ \A t \in Session \ {s} : uplink'[t] = uplink[t]
         /\ wires' = <<uplink[s].hand>> \o wires /\ UNCHANGED <<fence, staged, installed>>
         /\ returned' # {} /\ (FewWiresReturn' => returned = {})
<1> UplinkTypes(R) /\ KeyTypes
  BY DEF ConfigTypes
<1>1. uplink[s].hand \in WireOf(R) /\ s \notin returned
  BY RevisionParts DEF ReturnWire, HeldOf, KeyInv
<1>2. returned' = returned \cup {s}
  BY DEF ReturnWire
<1>3. FewWiresReturn' => returned = {}
  BY <1>1, <1>2 DEF FewWiresReturn
<1> QED BY <1>1, <1>2, <1>3, SessionSteps DEF SessionStep, ReturnWire, nodeVars

LEMMA ReplaceParts ==
  ASSUME NEW R \in SUBSET Nat, 0 \in R, ConfigTypes(R), NEW j \in Builder, ReplaceQueue(j)
  PROVE  /\ UNCHANGED <<link, uplink, staged, installed, returned>>
         /\ \/ UNCHANGED queueVars
            \/ /\ ~(fence > job[j].rev) /\ fence' = job[j].rev
               /\ \A i \in 1 .. Len(wires') : /\ wires'[i].rev = job[j].rev
                                              /\ wires'[i].content = job[j].content
<1>1. CASE IsLater(job[j].rev)
  BY <1>1 DEF ReplaceQueue, nodeVars, pastVars
<1>2. CASE ~IsLater(job[j].rev)
  <2>1. wires' = <<[kind |-> "begin", rev |-> job[j].rev, content |-> job[j].content],
                   [kind |-> "commit", rev |-> job[j].rev, content |-> job[j].content]>>
    BY <1>2 DEF ReplaceQueue
  <2>2. Len(wires') = 2 /\ \A i \in 1 .. 2 : /\ wires'[i].rev = job[j].rev
                                             /\ wires'[i].content = job[j].content
    BY <2>1
  <2> QED BY <1>2, <2>2 DEF ReplaceQueue, nodeVars, pastVars, IsLater
<1> QED BY <1>1, <1>2

LEMMA PopParts ==
  ASSUME NEW R \in SUBSET Nat, 0 \in R, ConfigTypes(R), NEW s \in Session, PopWire(s)
  PROVE  /\ UNCHANGED <<link, fence, staged, installed, returned>> /\ wires # <<>>
         /\ wires' = Tail(wires) /\ uplink'[s].hand = wires[1] /\ 1 \in 1 .. Len(wires)
         /\ \A t \in Session \ {s} : uplink'[t] = uplink[t]
<1> UplinkTypes(R) /\ KeyTypes /\ wires \in Seq(WireOf(R))
  BY DEF ConfigTypes, QueueTypes
<1>1. wires # <<>> /\ wires' = Tail(wires) /\ UNCHANGED <<link, fence, staged, installed, returned>>
  BY DEF PopWire, nodeVars, pastVars
<1>2. wires[1] = Head(wires) /\ 1 \in 1 .. Len(wires)
  BY <1>1
<1> QED BY <1>1, <1>2, SessionSteps DEF SessionStep

LEMMA ConfigStepFence ==
  ASSUME NEW R \in SUBSET Nat, 0 \in R, ConfigTypes(R), KeyInv, FenceInv, NextEdgeConfig
  PROVE  FenceInv'
<1>0. /\ fence \in Nat /\ installed.rev \in Nat /\ staged.rev \in Nat
      /\ wires \in Seq(WireOf(R)) /\ \A i \in 1 .. Len(wires) : wires[i] \in WireOf(R)
      /\ \A w \in WireOf(R) : w.rev \in Nat /\ w # NoWire
      /\ \A s \in Session : uplink[s].hand \in HeldOf(R) /\ uplink[s].hand.rev \in Nat
      /\ NoWire.rev = 0 /\ \A j \in Builder : job[j].rev \in Nat
  BY RevisionParts
<1> USE <1>0
<1>1. CASE Still
  <2>1. \A s \in Session : uplink'[s].hand.rev <= fence'
    <3>1. NoWire.rev <= fence /\ \A s \in Session : uplink[s].hand.rev <= fence
      BY DEF FenceInv
    <3>2. \A s \in Session : uplink'[s].hand \in {uplink[s].hand, NoWire}
      BY <1>1 DEF Still
    <3> QED BY <1>1, <3>1, <3>2 DEF Still
  <2>2. FewWiresReturn' = FewWiresReturn
    BY <1>1 DEF Still, FewWiresReturn
  <2> QED BY <1>1, <2>1, <2>2 DEF Still, FenceInv
<1>2. ASSUME NEW j \in Builder, ReplaceQueue(j) PROVE FenceInv'
  <2>1. UNCHANGED <<uplink, staged, installed, returned>>
    BY <1>2, ReplaceParts
  <2>2. FewWiresReturn' = FewWiresReturn
    BY <2>1 DEF FewWiresReturn
  <2>3. CASE UNCHANGED queueVars
    BY <2>1, <2>2, <2>3 DEF FenceInv, queueVars
  <2>4. CASE ~(fence > job[j].rev) /\ fence' = job[j].rev
             /\ \A i \in 1 .. Len(wires') : wires'[i].rev = job[j].rev
    <3>1. fence <= fence' /\ fence' \in Nat
      BY <2>4
    <3>2. \A i \in 1 .. Len(wires') : wires'[i].rev = fence'
      BY <2>4
    <3>3. \A s \in Session : uplink[s].hand.rev <= fence'
      BY <3>1 DEF FenceInv
    <3>4. staged.rev <= fence' /\ installed.rev <= fence'
      BY <3>1 DEF FenceInv
    <3>5. \A i \in 2 .. Len(wires') : i \in 1 .. Len(wires')
      BY <1>2, ReplaceParts
    <3> QED BY <2>1, <3>1, <3>2, <3>3, <3>4, <3>5 DEF FenceInv
  <2> QED BY <1>2, <2>3, <2>4, ReplaceParts
<1>3. ASSUME NEW s \in Session, ReturnWire(s) PROVE FenceInv'
  <2> DEFINE w == uplink[s].hand
  <2>1. /\ w \in WireOf(R) /\ uplink'[s].hand = NoWire
        /\ \A t \in Session \ {s} : uplink'[t] = uplink[t]
        /\ wires' = <<w>> \o wires /\ UNCHANGED <<fence, staged, installed>>
        /\ returned' # {} /\ (FewWiresReturn' => returned = {})
    BY <1>3, ReturnParts
  <2>2. w.rev <= fence
    BY DEF FenceInv
  <2>3. /\ Len(wires') = Len(wires) + 1 /\ wires'[1] = w
        /\ \A i \in 2 .. Len(wires) + 1 : wires'[i] = wires[i - 1] /\ i - 1 \in 1 .. Len(wires)
    BY <2>1, QueuePlaces
  <2> HIDE DEF w
  <2>8. \A i \in 1 .. Len(wires') : i = 1 \/ i \in 2 .. Len(wires) + 1
    BY <2>3
  <2>4. \A i \in 1 .. Len(wires') : wires'[i].rev <= fence'
    BY <2>1, <2>2, <2>3, <2>8, SMTT(40) DEF FenceInv
  <2>5. FewWiresReturn' => \A i \in 2 .. Len(wires') : wires'[i].rev = fence'
    BY <2>1, <2>3, <2>8, SMTT(40) DEF FenceInv
  <2>6. \A t \in Session : uplink'[t].hand.rev <= fence'
    BY <2>1 DEF FenceInv
  <2>7. staged'.rev <= fence' /\ installed'.rev <= fence'
    BY <2>1 DEF FenceInv
  <2> QED BY <2>1, <2>4, <2>5, <2>6, <2>7, Zenon DEF FenceInv
<1>4. ASSUME NEW s \in Session, PopWire(s) PROVE FenceInv'
  <2>1. /\ UNCHANGED <<fence, staged, installed, returned>> /\ wires # <<>>
        /\ wires' = Tail(wires) /\ uplink'[s].hand = wires[1] /\ 1 \in 1 .. Len(wires)
        /\ \A t \in Session \ {s} : uplink'[t] = uplink[t]
    BY <1>4, PopParts
  <2>2. /\ Len(wires') = Len(wires) - 1
        /\ \A i \in 1 .. Len(wires) - 1 : wires'[i] = wires[i + 1] /\ i + 1 \in 2 .. Len(wires)
    BY <2>1, QueuePlaces
  <2>3. FewWiresReturn' = FewWiresReturn
    BY <2>1 DEF FewWiresReturn
  <2>4. \A i \in 1 .. Len(wires') : wires'[i].rev <= fence'
    BY <2>1, <2>2 DEF FenceInv
  <2>5. FewWiresReturn' => \A i \in 2 .. Len(wires') : wires'[i].rev = fence'
    BY <2>1, <2>2, <2>3 DEF FenceInv
  <2>6. returned' = {} => \A i \in 1 .. Len(wires') : wires'[i].rev = fence'
    BY <2>1, <2>2 DEF FenceInv
  <2>7. \A t \in Session : uplink'[t].hand.rev <= fence'
    BY <2>1 DEF FenceInv
  <2> QED BY <2>1, <2>4, <2>5, <2>6, <2>7 DEF FenceInv
<1>5. ASSUME NEW s \in Session, SendWire(s) PROVE FenceInv'
  <2>1. uplink'[s].hand = NoWire /\ \A t \in Session \ {s} : uplink'[t] = uplink[t]
    BY <1>5, SessionSteps DEF ConfigTypes, SessionStep
  <2>2. UNCHANGED <<wires, fence, returned>>
    BY <1>5, ReceiveParts
  <2>3. staged' \in {staged, uplink[s].hand, NoWire}
        /\ installed'.rev \in {installed.rev, uplink[s].hand.rev}
    BY <1>5, ReceiveParts
  <2>4. FewWiresReturn' = FewWiresReturn
    BY <2>2 DEF FewWiresReturn
  <2> QED BY <2>1, <2>2, <2>3, <2>4 DEF FenceInv
<1> QED BY <1>1, <1>2, <1>3, <1>4, <1>5, StillSteps

\* The node never installs an earlier revision: both wires of it would be behind.
LEMMA ConfigStepOnward ==
  ASSUME NEW R \in SUBSET Nat, 0 \in R, ConfigTypes(R), KeyInv, LowInv, NextEdgeConfig,
         FewWiresReturn
  PROVE  installed'.rev >= installed.rev
<1>1. ASSUME NEW s \in Session, SendWire(s), installed' # installed
      PROVE  installed'.rev >= installed.rev
  <2> DEFINE w == uplink[s].hand
  <2>1. /\ link = s /\ w \in WireOf(R) /\ staged = [w EXCEPT !.kind = "begin"]
        /\ installed' = [rev |-> w.rev, content |-> w.content]
    BY <1>1, ReceiveParts
  <2>2. staged.rev = w.rev /\ staged.kind = "begin" /\ w # NoWire /\ w.rev \in Nat
    BY <2>1, RevisionParts DEF WireOf, OfKind
  <2>3. staged # NoWire /\ installed'.rev = w.rev /\ link # NoSession
    BY <2>1, <2>2, Builders DEF NoWire
  <2>4. ~(Low(w) /\ Low(staged))
    BY <2>1, <2>3 DEF LowInv, LowHand
  <2>5. installed.rev \in Nat
    BY RevisionParts
  <2> HIDE DEF w
  <2> QED BY <2>2, <2>3, <2>4, <2>5 DEF Low
<1>2. installed' = installed => installed'.rev >= installed.rev
  BY RevisionParts
<1>3. \/ installed' = installed \/ \E s \in Session : SendWire(s)
  BY StillSteps, ReplaceParts, ReturnParts, PopParts DEF Still
<1> QED BY <1>1, <1>2, <1>3

LEMMA ConfigStepLow ==
  ASSUME NEW R \in SUBSET Nat, 0 \in R, ConfigTypes(R), KeyInv, FenceInv, LowInv, NextEdgeConfig
  PROVE  LowInv'
<1>0. /\ fence \in Nat /\ installed.rev \in Nat /\ staged.rev \in Nat
      /\ wires \in Seq(WireOf(R)) /\ \A i \in 1 .. Len(wires) : wires[i] \in WireOf(R)
      /\ \A w \in WireOf(R) : w.rev \in Nat /\ w # NoWire
      /\ \A s \in Session : uplink[s].hand \in HeldOf(R) /\ uplink[s].hand.rev \in Nat
      /\ NoWire.rev = 0 /\ \A j \in Builder : job[j].rev \in Nat
  BY RevisionParts
<1> USE <1>0
<1> NoSession \notin Session /\ KeyTypes
  BY Builders DEF ConfigTypes
<1>1. CASE Still
  <2>1. LowHand' => LowHand
    BY <1>1 DEF Still, LowHand, Low, KeyTypes
  <2>2. (LowQueue' => LowQueue) /\ (Low(staged)' => Low(staged))
    BY <1>1 DEF Still, LowQueue, Low
  <2>3. returned' = returned /\ FewWiresReturn' = FewWiresReturn
    BY <1>1 DEF Still, FewWiresReturn
  <2> QED BY <2>1, <2>2, <2>3 DEF LowInv
<1>2. ASSUME NEW j \in Builder, ReplaceQueue(j) PROVE LowInv'
  <2>1. UNCHANGED <<link, uplink, staged, installed, returned>>
    BY <1>2, ReplaceParts
  <2>2. FewWiresReturn' = FewWiresReturn
    BY <2>1 DEF FewWiresReturn
  <2>3. LowQueue' => LowQueue
    <3>1. CASE UNCHANGED queueVars
      BY <2>1, <3>1 DEF LowQueue, Low, queueVars
    <3>2. CASE ~(fence > job[j].rev)
               /\ \A i \in 1 .. Len(wires') : wires'[i].rev = job[j].rev
      BY <2>1, <3>2 DEF LowQueue, Low, FenceInv
    <3> QED BY <1>2, <3>1, <3>2, ReplaceParts
  <2> QED BY <2>1, <2>2, <2>3 DEF LowInv, LowHand, Low
<1>3. ASSUME NEW s \in Session, ReturnWire(s) PROVE LowInv'
  <2>1. /\ link' = link /\ link # s /\ \A t \in Session \ {s} : uplink'[t] = uplink[t]
        /\ UNCHANGED <<staged, installed>>
        /\ returned' # {} /\ (FewWiresReturn' => returned = {})
    BY <1>3, ReturnParts
  <2>2. (LowHand' => LowHand) /\ (Low(staged)' => Low(staged))
    BY <2>1 DEF LowHand, Low, KeyTypes
  <2> QED BY <2>1, <2>2 DEF LowInv
<1>4. ASSUME NEW s \in Session, PopWire(s) PROVE LowInv'
  <2>1. /\ UNCHANGED <<link, staged, installed, returned>> /\ wires # <<>>
        /\ wires' = Tail(wires) /\ uplink'[s].hand = wires[1] /\ 1 \in 1 .. Len(wires)
        /\ \A t \in Session \ {s} : uplink'[t] = uplink[t]
    BY <1>4, PopParts
  <2>2. /\ Len(wires') = Len(wires) - 1
        /\ \A i \in 1 .. Len(wires) - 1 : wires'[i] = wires[i + 1] /\ i + 1 \in 2 .. Len(wires)
    BY <2>1, QueuePlaces
  <2>3. FewWiresReturn' = FewWiresReturn /\ (Low(staged)' <=> Low(staged))
    BY <2>1 DEF FewWiresReturn, Low
  <2>4. LowQueue' => LowQueue /\ ~FewWiresReturn
    BY <2>1, <2>2 DEF LowQueue, Low, FenceInv
  <2>5. LowHand' => LowHand \/ LowQueue
    BY <2>1 DEF LowHand, LowQueue, Low, KeyTypes
  <2> QED BY <2>1, <2>3, <2>4, <2>5 DEF LowInv
<1>5. ASSUME NEW s \in Session, SendWire(s) PROVE LowInv'
  <2> DEFINE w == uplink[s].hand
  <2>1. uplink'[s].hand = NoWire /\ \A t \in Session \ {s} : uplink'[t] = uplink[t]
    BY <1>5, SessionSteps DEF ConfigTypes, SessionStep
  <2>2. UNCHANGED <<wires, fence, returned, link>> /\ w \in WireOf(R)
    BY <1>5, ReceiveParts
  <2>3. FewWiresReturn' = FewWiresReturn
    BY <2>2 DEF FewWiresReturn
  <2>4. CASE link # s /\ UNCHANGED <<staged, installed>>
    BY <2>1, <2>2, <2>3, <2>4 DEF LowInv, LowHand, LowQueue, Low, KeyTypes
  <2>5. CASE link = s /\ staged' = w /\ UNCHANGED installed
    <3>1. ~LowHand' /\ (LowQueue' => LowQueue)
      BY <2>1, <2>2, <2>5 DEF LowHand, LowQueue, Low
    <3>2. Low(staged)' => LowHand
      BY <2>2, <2>5 DEF LowHand, Low
    <3> QED BY <2>2, <2>3, <3>1, <3>2 DEF LowInv
  <2>6. CASE /\ link = s /\ staged' = NoWire
             /\ installed' = installed \/ installed'.rev = w.rev
    <3>1. ~LowHand' /\ ~Low(staged)'
      BY <2>1, <2>2, <2>6 DEF LowHand, Low
    <3>2. returned = {} => ~LowQueue'
      <4>1. installed'.rev <= fence /\ installed'.rev \in Nat
        BY <2>6 DEF FenceInv
      <4>2. returned = {} => \A i \in 1 .. Len(wires) : wires[i].rev = fence
        BY DEF FenceInv
      <4> QED BY <2>2, <4>1, <4>2 DEF LowQueue, Low
    <3> QED BY <2>2, <2>3, <3>1, <3>2 DEF LowInv
  <2> QED BY <1>5, <2>4, <2>5, <2>6, ReceiveParts
<1> QED BY <1>1, <1>2, <1>3, <1>4, <1>5, StillSteps

\* What the node has said about a revision it ran is still so.
Holds(m) == m.kind \in {"applied", "beat"} => m.rev <= installed.rev
SaidInv ==
  FewWiresReturn =>
    /\ Holds(answer)
    /\ \A s \in Session : /\ Holds(uplink[s].rest)
                          /\ \A i \in 1 .. Len(incoming[s]) : Holds(incoming[s][i])
    /\ config.state = "applied" => config.desired <= installed.rev

LEMMA AnswerSteps ==
  ASSUME NEW R, ConfigTypes(R), NextEdgeConfig
  PROVE  \/ answer' \in {answer, NoWire} \/ answer'.kind = "rejected"
         \/ answer'.rev = installed'.rev
<1> USE DEF nodeVars
<1>1. ASSUME NEW s \in Session, SendWire(s)
      PROVE  \/ answer' = answer \/ answer'.kind = "rejected" \/ answer'.rev = installed'.rev
  <2> DEFINE w == uplink[s].hand
  <2>1. CASE answer' = [w EXCEPT !.kind = "applied"] /\ w \in WireOf(R)
             /\ installed' = [rev |-> w.rev, content |-> w.content]
    BY <2>1 DEF WireOf, OfKind
  <2> QED BY <1>1, <2>1, ReceiveParts
<1>2. ASSUME NEW e \in Editor, Edit(e) \/ Choose(e) \/ Raise(e) PROVE answer' = answer
  BY <1>2 DEF Edit, Choose, Raise
<1>3. ASSUME NEW j \in Builder, Look(j) \/ Build(j) \/ Refuse(j) \/ ClaimReplay(j)
      PROVE  answer' = answer
  BY <1>3 DEF Look, Build, Refuse, ClaimReplay
<1>4. ASSUME NEW j \in Builder, RecordRevision(j) \/ ReplaceQueue(j) \/ NotifyNode(j)
                                \/ JobFails(j)
      PROVE  answer' = answer
  BY <1>4 DEF RecordRevision, ReplaceQueue, NotifyNode, JobFails
<1>5. ASSUME NEW s \in Session, Connect(s) \/ PopWire(s) \/ Drained(s) \/ ReturnWire(s)
                                \/ EndSession(s) \/ ReadRest(s)
      PROVE  answer' = answer
  BY <1>5 DEF Connect, Dial, PublishHello, ClaimSession, Greet, PopWire, Drained,
     ReturnWire, EndSession, ReadRest
<1>6. ASSUME NEW s \in Session, LoseKey(s) \/ TurnAway(s) \/ SessionDies(s)
                                \/ ProjectIngress(s) \/ ProjectReport(s)
      PROVE  answer' \in {answer, NoWire}
  BY <1>6 DEF LoseKey, TurnAway, SessionDies, Disconnects, ProjectIngress, ProjectReport
<1>7. BreakLink \/ HolderExpires \/ NodeSends => answer' \in {answer, NoWire}
  BY DEF BreakLink, HolderExpires, NodeSends, SendAnswer, SendReport, Heartbeat
<1> QED
  BY <1>1, <1>2, <1>3, <1>4, <1>5, <1>6, <1>7, Builders DEF NextEdgeConfig,
     Work, Connect, Serve, GiveUp

LEMMA RestSteps ==
  ASSUME NEW R, ConfigTypes(R), NextEdgeConfig, NEW s \in Session
  PROVE  uplink'[s].rest \in {uplink[s].rest, answer, NoWire} \/ uplink'[s].rest.kind = "hello"
<1> UplinkTypes(R) /\ KeyTypes
  BY DEF ConfigTypes
<1>1. Aside => uplink'[s].rest = uplink[s].rest
  BY DEF Aside, Alike
<1>2. HolderExpires => uplink'[s].rest = uplink[s].rest
  BY DEF HolderExpires
<1>3. ASSUME NEW j \in Builder, ReplaceQueue(j) PROVE uplink'[s].rest = uplink[s].rest
  BY <1>3 DEF ReplaceQueue
<1>4. ASSUME NEW t \in Session, SessionStep(t)
      PROVE  uplink'[s].rest \in {uplink[s].rest, NoWire} \/ uplink'[s].rest.kind = "hello"
  <2>1. uplink'[t].rest \in {uplink[t].rest, NoWire} \/ uplink'[t].rest.kind = "hello"
    BY <1>4, SessionSteps DEF SessionStep, Accepts
  <2>2. \A x \in Session \ {t} : uplink'[x] = uplink[x]
    BY <1>4, SessionSteps
  <2> QED BY <2>1, <2>2
<1> QED BY <1>1, <1>2, <1>3, <1>4, BreakParts, ConfigSteps

\* What is in the stream of a worker, and what is added to it.
LEMMA StreamSteps ==
  ASSUME NEW R, ConfigTypes(R), NextEdgeConfig, NEW s \in Session
  PROVE  \/ incoming'[s] = incoming[s]
         \/ incoming[s] # <<>> /\ incoming'[s] = Tail(incoming[s])
         \/ \E m : /\ incoming'[s] = Append(incoming[s], m)
                   /\ \/ m = answer \/ m = uplink[s].rest
                      \/ m.kind = "report" \/ m.rev = installed.rev
<1> IngressTypes(R) /\ KeyTypes
  BY DEF ConfigTypes
<1>1. ASSUME NEW e \in Editor, Edit(e) \/ Choose(e) \/ Raise(e) PROVE incoming' = incoming
  BY <1>1 DEF Edit, Choose, Raise
<1>2. ASSUME NEW j \in Builder, Look(j) \/ Build(j) \/ Refuse(j) \/ ClaimReplay(j)
      PROVE  incoming' = incoming
  BY <1>2 DEF Look, Build, Refuse, ClaimReplay
<1>3. ASSUME NEW j \in Builder, RecordRevision(j) \/ ReplaceQueue(j) \/ NotifyNode(j)
                                \/ JobFails(j)
      PROVE  incoming' = incoming
  BY <1>3 DEF RecordRevision, ReplaceQueue, NotifyNode, JobFails
<1>4. ASSUME NEW t \in Session, PopWire(t) \/ Drained(t) \/ SendWire(t) \/ ReturnWire(t)
                                \/ EndSession(t) \/ TurnAway(t) \/ LoseKey(t)
                                \/ SessionDies(t)
      PROVE  incoming' = incoming
  BY <1>4 DEF PopWire, Drained, SendWire, ReturnWire, EndSession, TurnAway, LoseKey,
     SessionDies
<1>5. BreakLink \/ HolderExpires => incoming' = incoming
  BY DEF BreakLink, HolderExpires
<1>6. ASSUME NEW t \in Session, Dial(t) \/ ClaimSession(t) \/ Greet(t)
      PROVE  incoming' = incoming
  BY <1>6 DEF Dial, ClaimSession, Greet
<1>7. ASSUME NEW t \in Session, ProjectIngress(t) \/ ProjectReport(t)
      PROVE  \/ incoming'[s] = incoming[s]
             \/ incoming[s] # <<>> /\ incoming'[s] = Tail(incoming[s])
  BY <1>7 DEF ProjectIngress, ProjectReport, IngressTypes
<1>8. ASSUME NEW t \in Session, NEW m, Publish(t, m)
      PROVE  incoming'[s] = incoming[s] \/ (s = t /\ incoming'[s] = Append(incoming[s], m))
  BY <1>8 DEF Publish, IngressTypes
<1>9. ASSUME NEW t \in Session, ReadRest(t) \/ PublishHello(t)
      PROVE  \/ incoming'[s] = incoming[s]
             \/ incoming'[s] = Append(incoming[s], uplink[s].rest)
  BY <1>8, <1>9 DEF ReadRest, PublishHello
<1>10. ASSUME NodeSends
       PROVE  \/ incoming'[s] = incoming[s]
              \/ \E m : /\ incoming'[s] = Append(incoming[s], m)
                        /\ m = answer \/ m.kind = "report" \/ m.rev = installed.rev
  <2>1. link \in Session
    BY <1>10 DEF NodeSends, SendAnswer, SendReport, Heartbeat, Readable, IsOpen,
       KeyTypes
  <2>2. PICK m : /\ Publish(link, m)
                 /\ m = answer \/ m.kind = "report" \/ m.rev = installed.rev
    <3>1. CASE SendAnswer
      BY <3>1 DEF SendAnswer
    <3>2. CASE SendReport
      BY <3>2 DEF SendReport
    <3>3. CASE Heartbeat
      BY <3>3 DEF Heartbeat
    <3> QED BY <1>10, <3>1, <3>2, <3>3 DEF NodeSends
  <2> QED BY <1>8, <2>1, <2>2
<1>11. \/ incoming' = incoming \/ NodeSends
       \/ \E t \in Session : \/ PublishHello(t) \/ ReadRest(t) \/ ProjectIngress(t)
                            \/ ProjectReport(t)
  BY <1>1, <1>2, <1>3, <1>4, <1>5, <1>6, Builders DEF NextEdgeConfig, Work,
     Connect, Serve, GiveUp
<1>12. CASE \E t \in Session : ReadRest(t) \/ PublishHello(t)
  <2>1. \/ incoming'[s] = incoming[s]
        \/ incoming'[s] = Append(incoming[s], uplink[s].rest)
    BY <1>9, <1>12
  <2> QED BY <2>1, Zenon
<1>13. CASE NodeSends
  BY <1>10, <1>13, Zenon
<1> QED BY <1>7, <1>11, <1>12, <1>13, Zenon

\* The row says "applied" because it has said so or because the node has.
LEMMA StatusSteps ==
  ASSUME NEW R, ConfigTypes(R), NextEdgeConfig, config'.state = "applied"
  PROVE  /\ config'.desired = config.desired
         /\ \/ config.state = "applied"
            \/ \E s \in Session :
                 /\ incoming[s] # <<>> /\ Head(incoming[s]).kind \in {"applied", "beat"}
                 /\ Head(incoming[s]).rev = config.desired
<1> StatusTypes(R) /\ IngressTypes(R)
  BY DEF ConfigTypes
<1> USE DEF rowVars
<1>1. ASSUME NEW e \in Editor, Edit(e) \/ Choose(e) PROVE config' = config
  BY <1>1 DEF Edit, Choose
<1>2. ASSUME NEW e \in Editor, Raise(e) PROVE FALSE
  BY <1>2 DEF Raise, StatusTypes
<1>3. ASSUME NEW j \in Builder, Look(j) \/ Build(j) \/ RecordRevision(j)
      PROVE  config' = config
  BY <1>3 DEF Look, Build, RecordRevision
<1>4. ASSUME NEW j \in Builder, ReplaceQueue(j) \/ NotifyNode(j) \/ JobFails(j)
      PROVE  config' = config
  BY <1>4 DEF ReplaceQueue, NotifyNode, JobFails
<1>5. ASSUME NEW j \in Builder, Refuse(j) PROVE config' = config
  <2>1. PICK why \in {"rejected", "unsupported"} :
          config' = IF IsDesired(job[j].rev) THEN [config EXCEPT !.state = why] ELSE config
    BY <1>5 DEF Refuse
  <2> QED BY <2>1 DEF StatusTypes
<1>6. ASSUME NEW j \in Builder, ClaimReplay(j) PROVE config' = config
  BY <1>6 DEF ClaimReplay, StatusTypes
<1>7. ASSUME NEW t \in Session, PopWire(t) \/ Drained(t) \/ SendWire(t) \/ ReturnWire(t)
                                \/ EndSession(t) \/ TurnAway(t) \/ LoseKey(t)
                                \/ SessionDies(t)
      PROVE  config' = config
  BY <1>7 DEF PopWire, Drained, SendWire, ReturnWire, EndSession, TurnAway, LoseKey,
     SessionDies
<1>8. ASSUME NEW t \in Session, Connect(t) \/ ReadRest(t) \/ ProjectReport(t)
      PROVE  config' = config
  BY <1>8 DEF Connect, Dial, PublishHello, ClaimSession, Greet, ReadRest, ProjectReport
<1>9. BreakLink \/ HolderExpires \/ NodeSends => config' = config
  BY DEF BreakLink, HolderExpires, NodeSends, SendAnswer, SendReport, Heartbeat
<1>10. ASSUME NEW s \in Session, ProjectIngress(s)
       PROVE  /\ config'.desired = config.desired /\ incoming[s] # <<>>
              /\ \/ config.state = "applied"
                 \/ /\ Head(incoming[s]).kind \in {"applied", "beat"}
                    /\ Head(incoming[s]).rev = config.desired
  <2> DEFINE m == Head(incoming[s])
  <2>1. config' = Projected(m) /\ incoming[s] # <<>> /\ m.kind # "report"
    BY <1>10 DEF ProjectIngress
  <2>2. m.kind \in {"hello", "beat", "applied", "rejected"}
    BY <2>1, Consumed DEF MessageOf, OfKind
  <2> HIDE DEF m
  <2>3. CASE m.kind = "hello"
    BY <2>1, <2>3 DEF Projected, StatusTypes
  <2>4. CASE m.kind = "beat"
    <3> DEFINE x == IF m.rev = config.desired /\ m.rev > 0 THEN "applied" ELSE config.state
    <3>1. config' = [config EXCEPT !.active = m.rev, !.state = x]
      BY <2>1, <2>4, Zenon DEF Projected
    <3>2. x = "applied" => config.state = "applied" \/ m.rev = config.desired
      OBVIOUS
    <3> HIDE DEF x
    <3> QED BY <2>1, <2>4, <3>1, <3>2 DEF StatusTypes, m
  <2>5. CASE m.kind = "applied"
    <3> DEFINE x == IF IsDesired(m.rev) THEN "applied" ELSE config.state
               a == Larger(config.active, m.rev)
    <3>1. config' = [config EXCEPT !.active = a, !.state = x]
      BY <2>1, <2>5 DEF Projected
    <3>2. x = "applied" => config.state = "applied" \/ m.rev = config.desired
      BY DEF IsDesired
    <3> HIDE DEF x, a
    <3> QED BY <2>1, <2>5, <3>1, <3>2 DEF StatusTypes, m
  <2>6. CASE m.kind = "rejected"
    <3> DEFINE x == IF IsDesired(m.rev) THEN "rejected" ELSE config.state
    <3>1. config' = [config EXCEPT !.state = x]
      BY <2>1, <2>6 DEF Projected
    <3>2. x = "applied" => config.state = "applied"
      OBVIOUS
    <3> HIDE DEF x
    <3> QED BY <2>1, <3>1, <3>2 DEF StatusTypes
  <2> QED BY <2>1, <2>2, <2>3, <2>4, <2>5, <2>6 DEF m
<1> QED
  BY <1>1, <1>2, <1>3, <1>4, <1>5, <1>6, <1>7, <1>8, <1>9, <1>10, Builders
  DEF NextEdgeConfig, Work, Connect, Serve, GiveUp

LEMMA ConfigStepSaid ==
  ASSUME NEW R \in SUBSET Nat, 0 \in R, ConfigTypes(R), KeyInv, LowInv, SaidInv,
         NextEdgeConfig, returned \subseteq returned'
  PROVE  SaidInv'
<1> SUFFICES ASSUME FewWiresReturn' PROVE
      /\ Holds(answer)'
      /\ \A s \in Session : /\ Holds(uplink[s].rest)'
                            /\ \A i \in 1 .. Len(incoming'[s]) : Holds(incoming[s][i])'
      /\ config'.state = "applied" => config'.desired <= installed'.rev
  BY DEF SaidInv
<1>1. FewWiresReturn
  BY FewBefore
<1>2. /\ Holds(answer)
      /\ \A s \in Session : /\ Holds(uplink[s].rest)
                            /\ \A i \in 1 .. Len(incoming[s]) : Holds(incoming[s][i])
      /\ config.state = "applied" => config.desired <= installed.rev
  BY <1>1 DEF SaidInv
<1>3. installed'.rev >= installed.rev
  BY <1>1, ConfigStepOnward
<1>4. /\ installed.rev \in Nat /\ installed'.rev \in Nat /\ answer \in AnswerOf(R)
      /\ \A s \in Session : uplink[s].rest \in RestOf(R)
      /\ \A s \in Session : incoming[s] \in Seq(MessageOf(R))
      /\ config.desired \in Nat
  <2>1. installed'.rev \in Nat
    <3>1. installed' = installed \/ \E s \in Session : SendWire(s)
      BY StillSteps, ReplaceParts, ReturnParts, PopParts DEF Still
    <3>2. ASSUME NEW s \in Session, SendWire(s) PROVE installed'.rev \in Nat
      BY <3>2, ReceiveParts, RevisionParts
    <3> QED BY <3>1, <3>2, RevisionParts
  <2> QED BY <2>1 DEF ConfigTypes, NodeTypes, UplinkTypes, UplinkOf,
             IngressTypes, StatusTypes
<1> DEFINE Later(m) == m.kind \in {"applied", "beat"} => m.rev <= installed'.rev
<1>5. /\ \A m \in AnswerOf(R) : Holds(m) => Later(m)
      /\ \A m \in RestOf(R) : Holds(m) => Later(m)
      /\ \A m \in MessageOf(R) : Holds(m) => Later(m)
  <2>1. \A K : \A m \in OfKind(K, R) : m.rev \in Nat
    BY DEF OfKind
  <2>2. \A K : \A m \in OfKind(K, R) : Holds(m) => Later(m)
    BY <1>3, <1>4, <2>1 DEF Holds
  <2>3. Later(NoWire)
    BY DEF NoWire
  <2> QED BY <2>2, <2>3 DEF AnswerOf, RestOf, MessageOf
<1>6. /\ Later(NoWire)
      /\ \A m : m.rev = installed'.rev \/ m.kind \in {"rejected", "hello"} => Later(m)
  BY <1>4 DEF NoWire
<1>7. Later(answer')
  BY <1>2, <1>4, <1>5, <1>6, AnswerSteps
<1>8. ASSUME NEW s \in Session PROVE Later(uplink'[s].rest)
  BY <1>2, <1>4, <1>5, <1>6, RestSteps
<1>9. ASSUME NEW s \in Session, NEW i \in 1 .. Len(incoming'[s])
      PROVE  Later(incoming'[s][i])
  <2> DEFINE q == incoming[s]
  <2>1. q \in Seq(MessageOf(R)) /\ \A k \in 1 .. Len(q) : Later(q[k])
    BY <1>2, <1>4, <1>5
  <2>2. CASE incoming'[s] = q
    BY <2>1, <2>2
  <2>3. CASE q # <<>> /\ incoming'[s] = Tail(q)
    <3>1. Tail(q)[i] = q[i + 1] /\ i + 1 \in 1 .. Len(q)
      BY <2>1, <2>3
    <3> QED BY <2>1, <2>3, <3>1
  <2>4. ASSUME NEW m, incoming'[s] = Append(q, m),
               m = answer \/ m = uplink[s].rest \/ m.kind = "report" \/ m.rev = installed.rev
        PROVE  Later(incoming'[s][i])
    <3>1. Later(m)
      <4>1. CASE m = answer \/ m = uplink[s].rest
        BY <1>2, <1>4, <1>5, <4>1
      <4>2. CASE m.kind = "report"
        BY <4>2
      <4>3. CASE m.rev = installed.rev
        BY <1>3, <1>4, <4>3
      <4> QED BY <2>4, <4>1, <4>2, <4>3
    <3>2. Append(q, m)[i] = IF i = Len(q) + 1 THEN m ELSE q[i]
      BY <2>1, <2>4
    <3>3. i = Len(q) + 1 \/ i \in 1 .. Len(q)
      BY <2>1, <2>4
    <3> QED BY <2>1, <2>4, <3>1, <3>2, <3>3
  <2> QED BY <2>2, <2>3, <2>4, StreamSteps
<1>10. ASSUME config'.state = "applied" PROVE config'.desired <= installed'.rev
  <2>1. config'.desired = config.desired
    BY <1>10, StatusSteps
  <2>2. config.state = "applied" => config.desired <= installed.rev
    BY <1>2
  <2>3. ASSUME NEW s \in Session, incoming[s] # <<>>,
               Head(incoming[s]).kind \in {"applied", "beat"},
               Head(incoming[s]).rev = config.desired
        PROVE  config.desired <= installed.rev
    <3>1. Head(incoming[s]) = incoming[s][1] /\ 1 \in 1 .. Len(incoming[s])
      BY <1>4, <2>3
    <3> QED BY <1>2, <2>3, <3>1 DEF Holds
  <2>4. config.desired <= installed.rev
    BY <1>10, <2>2, <2>3, StatusSteps
  <2>5. config.desired \in Nat /\ installed.rev \in Nat /\ installed'.rev \in Nat
    BY <1>4
  <2> QED BY <1>3, <2>1, <2>4, <2>5
<1> QED BY <1>7, <1>8, <1>9, <1>10 DEF Holds

\* As long as revisions only rise, what is built for one has all that was configured
\* when it was chosen.
Whole(w) == w # NoWire => w.content >= promised[w.rev]
Looking == {"none", "choose", "raise", "look"}
Carrying == {"claim", "record", "queue"}
ContentInv ==
  /\ \A r \in Revision : promised[r] <= content
  /\ ~lowered =>
       /\ fence <= config.desired
       /\ \A j \in Builder : job[j].at \notin Looking => job[j].rev <= config.desired
       /\ \A j \in Builder : job[j].at \in Carrying => job[j].content >= promised[job[j].rev]
       /\ \A i \in 1 .. Len(wires) : Whole(wires[i])
       /\ \A s \in Session : Whole(uplink[s].hand)
       /\ Whole(staged) /\ installed.content >= promised[installed.rev]

\* The steps that change a row or a job leave alone what is on its way, and the other
\* way round; but for the death of a session, which leaves the row.
LEMMA ContentSteps ==
  ASSUME NEW R, ConfigTypes(R), NextEdgeConfig
  PROVE  \/ \E e \in Editor : Choose(e) \/ Raise(e)
         \/ /\ UNCHANGED <<promised, lowered>> /\ config'.desired = config.desired
            /\ content' = content \/ content' = content + 1
            /\ \A j \in Builder :
                 \/ job'[j] = job[j] \/ job'[j].at \in {"none", "choose", "look"}
                 \/ /\ job'[j].rev = job[j].rev /\ job'[j].content = job[j].content
                    /\ job[j].at \notin Looking
                    /\ job'[j].at \in Carrying => job[j].at \in Carrying
                 \/ job'[j].at = "build" /\ job'[j].rev = config.desired
                 \/ /\ job[j].at = "build" /\ job'[j].content = content
                    /\ job'[j].rev = job[j].rev
<1> JobTypes(R) /\ StatusTypes(R) /\ KeyTypes /\ IngressTypes(R)
  BY DEF ConfigTypes
<1> DEFINE Same == UNCHANGED <<promised, lowered>> /\ config'.desired = config.desired
           Part(j) ==
                 \/ job'[j] = job[j] \/ job'[j].at \in {"none", "choose", "look"}
                 \/ /\ job'[j].rev = job[j].rev /\ job'[j].content = job[j].content
                    /\ job[j].at \notin Looking
                    /\ job'[j].at \in Carrying => job[j].at \in Carrying
                 \/ job'[j].at = "build" /\ job'[j].rev = config.desired
                 \/ /\ job[j].at = "build" /\ job'[j].content = content
                    /\ job'[j].rev = job[j].rev
           Jobs == \A j \in Builder : Part(j)
<1> USE DEF rowVars, pastVars
<1>1. job' = job => Jobs
  OBVIOUS
<1>2. ASSUME NEW j \in Builder, EndJob(j) \/ job' = [job EXCEPT ![j] = NoJob] PROVE Jobs
  BY <1>2 DEF EndJob, JobTypes, NoJob
<1>3. ASSUME NEW j \in Builder, NEW x, To(j, x)
      PROVE  /\ \A k \in Builder \ {j} : job'[k] = job[k]
             /\ job'[j].at = x /\ job'[j].rev = job[j].rev /\ job'[j].content = job[j].content
  BY <1>3 DEF To, JobTypes, JobOf
<1>4. ASSUME NEW e \in Editor, Edit(e) PROVE Same /\ content' = content + 1 /\ Jobs
  BY <1>3, <1>4, Builders DEF Edit
<1>5. ASSUME NEW j \in Builder, Look(j) PROVE Same /\ content' = content /\ Jobs
  <2>1. CASE EndJob(j)
    BY <1>2, <1>5, <2>1 DEF Look
  <2>2. CASE job' = [job EXCEPT ![j] = [at |-> "build", rev |-> config.desired,
                                        content |-> 0, state |-> config.state]]
    <3>1. Jobs
      BY <2>2 DEF JobTypes
    <3> QED BY <1>5, <3>1 DEF Look
  <2> QED BY <1>5, <2>1, <2>2 DEF Look
<1>6. ASSUME NEW j \in Builder, Build(j) PROVE Same /\ content' = content /\ Jobs
  <2>1. ASSUME NEW x, job' = [job EXCEPT ![j].content = content, ![j].at = x]
        PROVE  Jobs
    <3>1. /\ \A k \in Builder \ {j} : job'[k] = job[k]
          /\ job'[j].content = content /\ job'[j].rev = job[j].rev
      BY <2>1 DEF JobTypes, JobOf
    <3>2. job[j].at = "build"
      BY <1>6 DEF Build, At
    <3> QED BY <3>1, <3>2
  <2>2. ASSUME NEW x \in {"rejected", "unsupported"}, To(j, x) PROVE Jobs
    <3>1. job[j].at = "build"
      BY <1>6 DEF Build, At
    <3> QED BY <1>3, <2>2, <3>1 DEF Looking, Carrying
  <2> HIDE DEF Jobs
  <2>3. Jobs
    BY <1>6, <2>1, <2>2 DEF Build
  <2> QED BY <1>6, <2>3 DEF Build
<1>7. ASSUME NEW j \in Builder, Refuse(j) PROVE Same /\ content' = content /\ Jobs
  <2>1. config'.desired = config.desired
    BY <1>7 DEF Refuse, StatusTypes
  <2> QED BY <1>2, <1>7, <2>1 DEF Refuse
<1>8. ASSUME NEW j \in Builder, ClaimReplay(j) PROVE Same /\ content' = content /\ Jobs
  <2>1. config'.desired = config.desired /\ UNCHANGED <<promised, lowered, content>>
    BY <1>8 DEF ClaimReplay, StatusTypes
  <2>2. CASE EndJob(j)
    BY <1>2, <2>1, <2>2
  <2>3. CASE To(j, "record")
    <3>1. job[j].at = "claim"
      BY <1>8 DEF ClaimReplay, At
    <3> QED BY <1>3, <2>1, <2>3, <3>1 DEF Looking, Carrying
  <2> QED BY <1>8, <2>2, <2>3 DEF ClaimReplay
<1>9. ASSUME NEW j \in Builder, RecordRevision(j) PROVE Same /\ content' = content /\ Jobs
  <2>1. config'.desired = config.desired /\ UNCHANGED <<promised, lowered, content>>
    BY <1>9 DEF RecordRevision
  <2>2. CASE EndJob(j)
    BY <1>2, <2>1, <2>2
  <2>3. CASE To(j, "queue")
    <3>1. job[j].at = "record"
      BY <1>9 DEF RecordRevision, At
    <3> QED BY <1>3, <2>1, <2>3, <3>1 DEF Looking, Carrying
  <2> QED BY <1>9, <2>2, <2>3 DEF RecordRevision
<1>10. ASSUME NEW j \in Builder, ReplaceQueue(j) PROVE Same /\ content' = content /\ Jobs
  <2>1. To(j, "notify") /\ config' = config /\ UNCHANGED <<promised, lowered, content>>
        /\ job[j].at = "queue"
    BY <1>10 DEF ReplaceQueue, At
  <2> QED BY <1>3, <2>1 DEF Looking, Carrying
<1>11. ASSUME NEW j \in Builder, NotifyNode(j) PROVE Same /\ content' = content /\ Jobs
  BY <1>2, <1>11 DEF NotifyNode
<1>12. ASSUME NEW j \in Builder, JobFails(j) PROVE Same /\ content' = content /\ Jobs
  <2>1. PICK x \in {NoJob, [NoJob EXCEPT !.at = "look"]} : job' = [job EXCEPT ![j] = x]
    BY <1>12 DEF JobFails
  <2>2. x.at \in {"none", "look"}
    BY DEF NoJob
  <2>3. Jobs
    BY <2>1, <2>2 DEF JobTypes
  <2> QED BY <1>12, <2>3 DEF JobFails
<1>13. ASSUME NEW s \in Session, SessionDies(s) PROVE Same /\ content' = content /\ Jobs
  <2>1. Jobs
    BY <1>2, <1>13, Builders DEF SessionDies
  <2> QED BY <1>13, <2>1 DEF SessionDies
<1>14. ASSUME NEW s \in Session, Connect(s) \/ PopWire(s) \/ Drained(s) \/ SendWire(s)
                                 \/ ReturnWire(s) \/ EndSession(s) \/ ReadRest(s)
                                 \/ TurnAway(s) \/ LoseKey(s)
       PROVE  Same /\ content' = content /\ Jobs
  BY <1>1, <1>14 DEF Connect, Dial, PublishHello, ClaimSession, Greet, PopWire, Drained,
     SendWire, ReturnWire, EndSession, ReadRest, TurnAway, LoseKey
<1>15. BreakLink \/ HolderExpires \/ SendAnswer \/ SendReport
         => Same /\ content' = content /\ Jobs
  BY <1>1 DEF BreakLink, HolderExpires, SendAnswer, SendReport
<1>16. ASSUME Heartbeat PROVE Same /\ content' = content /\ Jobs
  <2>1. link \in Builder
    BY <1>16, Builders DEF Heartbeat, Readable, IsOpen, KeyTypes
  <2>2. Jobs
    BY <1>16, <2>1 DEF Heartbeat, JobTypes, JobOf
  <2> QED BY <1>16, <2>2 DEF Heartbeat
<1>17. ASSUME NEW s \in Session, ProjectIngress(s) PROVE Same /\ content' = content /\ Jobs
  <2> DEFINE m == Head(incoming[s])
  <2>1. config' = Projected(m) /\ incoming[s] # <<>> /\ m.kind # "report"
    BY <1>17 DEF ProjectIngress
  <2>2. m.kind \in {"hello", "beat", "applied", "rejected"}
    BY <2>1, Consumed DEF MessageOf, OfKind
  <2> HIDE DEF m
  <2>3. Projected(m).desired = config.desired
    BY <2>2 DEF Projected, StatusTypes
  <2> QED BY <1>1, <1>17, <2>1, <2>3 DEF ProjectIngress
<1>18. ASSUME NEW s \in Session, ProjectReport(s) PROVE Same /\ content' = content /\ Jobs
  BY <1>3, <1>18, Builders DEF ProjectReport
<1> HIDE DEF Jobs, Same
<1>19. \/ \E e \in Editor : Choose(e) \/ Raise(e)
       \/ Same /\ (content' = content \/ content' = content + 1) /\ Jobs
  BY <1>4, <1>5, <1>6, <1>7, <1>8, <1>9, <1>10, <1>11, <1>12, <1>13, <1>14,
     <1>15, <1>16,
     <1>17, <1>18, Builders
  DEF NextEdgeConfig, Work, Connect, Serve, GiveUp, NodeSends
<1> QED BY <1>19, Zenon DEF Jobs, Same

\* A snapshot that was built whole stays whole on its way to the node.
LEMMA WholeSteps ==
  ASSUME NEW R \in SUBSET Nat, 0 \in R, ConfigTypes(R), KeyInv, NextEdgeConfig,
         promised' = promised,
         \A j \in Builder : job[j].at = "queue" => job[j].content >= promised[job[j].rev],
         \A i \in 1 .. Len(wires) : Whole(wires[i]),
         \A s \in Session : Whole(uplink[s].hand), Whole(staged),
         installed.content >= promised[installed.rev]
  PROVE  /\ \A i \in 1 .. Len(wires') : Whole(wires[i])'
         /\ \A s \in Session : Whole(uplink[s].hand)'
         /\ Whole(staged)' /\ installed'.content >= promised'[installed'.rev]
<1> DEFINE W(w) == w # NoWire => w.content >= promised[w.rev]
           Goal == /\ \A i \in 1 .. Len(wires') : W(wires'[i])
                   /\ \A s \in Session : W(uplink'[s].hand)
                   /\ W(staged') /\ installed'.content >= promised[installed'.rev]
<1>0. /\ \A i \in 1 .. Len(wires) : W(wires[i])
      /\ \A s \in Session : W(uplink[s].hand)
      /\ W(staged) /\ W(NoWire)
  BY DEF Whole
<1> SUFFICES Goal
  BY DEF Whole
<1> HIDE DEF W
<1>1. CASE Still
  BY <1>0, <1>1 DEF Still
<1>2. ASSUME NEW j \in Builder, ReplaceQueue(j) PROVE Goal
  <2>1. UNCHANGED <<uplink, staged, installed>>
    BY <1>2, ReplaceParts
  <2>2. job[j].content >= promised[job[j].rev]
    BY <1>2 DEF ReplaceQueue, At
  <2>3. \A i \in 1 .. Len(wires') : W(wires'[i])
    <3>1. CASE UNCHANGED queueVars
      BY <1>0, <3>1 DEF queueVars
    <3>2. CASE \A i \in 1 .. Len(wires') : /\ wires'[i].rev = job[j].rev
                                           /\ wires'[i].content = job[j].content
      BY <2>2, <3>2 DEF W
    <3> QED BY <1>2, <3>1, <3>2, ReplaceParts
  <2> QED BY <1>0, <2>1, <2>3
<1>3. ASSUME NEW s \in Session, ReturnWire(s) PROVE Goal
  <2> DEFINE w == uplink[s].hand
  <2>1. /\ w \in WireOf(R) /\ uplink'[s].hand = NoWire
        /\ \A t \in Session \ {s} : uplink'[t] = uplink[t]
        /\ wires' = <<w>> \o wires /\ UNCHANGED <<staged, installed>>
    BY <1>3, ReturnParts
  <2>2. wires \in Seq(WireOf(R))
    BY RevisionParts
  <2>3. /\ Len(wires') = Len(wires) + 1 /\ wires'[1] = w
        /\ \A i \in 2 .. Len(wires) + 1 : wires'[i] = wires[i - 1] /\ i - 1 \in 1 .. Len(wires)
    BY <2>1, <2>2, QueuePlaces
  <2>4. W(w)
    BY <1>0
  <2> HIDE DEF w
  <2>5. \A i \in 1 .. Len(wires') : i = 1 \/ i \in 2 .. Len(wires) + 1
    BY <2>2, <2>3
  <2>6. \A i \in 1 .. Len(wires') : W(wires'[i])
    BY <1>0, <2>3, <2>4, <2>5
  <2> QED BY <1>0, <2>1, <2>6
<1>4. ASSUME NEW s \in Session, PopWire(s) PROVE Goal
  <2>1. /\ UNCHANGED <<staged, installed>> /\ wires # <<>> /\ wires' = Tail(wires)
        /\ uplink'[s].hand = wires[1] /\ 1 \in 1 .. Len(wires)
        /\ \A t \in Session \ {s} : uplink'[t] = uplink[t]
    BY <1>4, PopParts
  <2>2. wires \in Seq(WireOf(R))
    BY RevisionParts
  <2>3. /\ Len(wires') = Len(wires) - 1
        /\ \A i \in 1 .. Len(wires) - 1 : wires'[i] = wires[i + 1] /\ i + 1 \in 2 .. Len(wires)
    BY <2>1, <2>2, QueuePlaces
  <2>4. \A i \in 2 .. Len(wires) : i \in 1 .. Len(wires)
    BY <2>2
  <2>5. \A i \in 1 .. Len(wires') : W(wires'[i])
    BY <1>0, <2>3, <2>4
  <2> QED BY <1>0, <2>1, <2>5
<1>5. ASSUME NEW s \in Session, SendWire(s) PROVE Goal
  <2> DEFINE w == uplink[s].hand
  <2>1. uplink'[s].hand = NoWire /\ \A t \in Session \ {s} : uplink'[t] = uplink[t]
    BY <1>5, SessionSteps DEF ConfigTypes, SessionStep
  <2>2. wires' = wires /\ w # NoWire
    BY <1>5, ReceiveParts DEF SendWire
  <2>3. /\ staged' \in {staged, w, NoWire}
        /\ installed' \in {installed, [rev |-> w.rev, content |-> w.content]}
    BY <1>5, ReceiveParts
  <2>4. W(w) /\ w.content >= promised[w.rev]
    BY <1>0, <2>2 DEF W
  <2> HIDE DEF w
  <2>5. installed'.content >= promised[installed'.rev]
    BY <2>3, <2>4
  <2> QED BY <1>0, <2>1, <2>2, <2>3, <2>4, <2>5
<1> QED BY <1>1, <1>2, <1>3, <1>4, <1>5, StillSteps

LEMMA ConfigStepContent ==
  ASSUME NEW R \in SUBSET Nat, 0 \in R, R \subseteq Revision, ConfigTypes(R), KeyInv, FenceInv,
         ContentInv, NextEdgeConfig
  PROVE  ContentInv'
<1> StatusTypes(R) /\ JobTypes(R) /\ UplinkTypes(R)
  BY DEF ConfigTypes
<1>1. /\ content \in Nat /\ config.desired \in Nat /\ config.active \in Nat
      /\ fence \in Nat /\ installed.rev \in Revision
      /\ \A r \in Revision : promised[r] \in Nat
      /\ \A j \in Builder : job[j].rev \in Nat /\ job[j].rev \in Revision
      /\ promised \in [Revision -> 0 .. MaxEdits]
  <2>1. promised \in [Revision -> 0 .. MaxEdits] /\ content \in Nat
    BY DEF ConfigTypes, ChangeTypes, PastTypes
  <2>2. config.desired \in Nat /\ config.active \in Nat
    BY DEF StatusTypes
  <2>3. fence \in Nat /\ installed.rev \in Revision
    BY DEF ConfigTypes, QueueTypes, NodeTypes
  <2>4. \A j \in Builder : job[j].rev \in Nat /\ job[j].rev \in Revision
    BY DEF JobTypes, JobOf
  <2>5. \A r \in Revision : promised[r] \in Nat
    BY <2>1
  <2> QED BY <2>1, <2>2, <2>3, <2>4, <2>5, Zenon
<1>2. ASSUME NEW e \in Editor, Choose(e) PROVE ContentInv'
  <2> DEFINE r == Larger(clock', Larger(config.desired, config.active) + 1)
  <2>1. /\ job' = [job EXCEPT ![e].at = "raise", ![e].rev = r]
        /\ promised' = [promised EXCEPT ![r] = content]
    BY <1>2 DEF Choose
  <2>2. r > config.desired
    <3>1. clock' \in Nat
      BY <1>2 DEF Choose, ConfigTypes, ChangeTypes, Larger
    <3> QED BY <1>1, <3>1 DEF Larger
  <2> HIDE DEF r
  <2>3. UNCHANGED <<wires, fence, staged, installed, uplink, config, lowered, content>>
    BY <1>2 DEF Choose, queueVars, nodeVars
  <2>4. \A x \in Revision : promised'[x] <= content /\ (x # r => promised'[x] = promised[x])
    BY <1>1, <2>1 DEF ContentInv
  <2> SUFFICES ASSUME ~lowered
      PROVE  /\ \A j \in Builder : job'[j].at \notin Looking => job'[j].rev <= config.desired
             /\ \A j \in Builder : job'[j].at \in Carrying
                                    => job'[j].content >= promised'[job'[j].rev]
             /\ \A i \in 1 .. Len(wires) : Whole(wires[i])'
             /\ \A s \in Session : Whole(uplink[s].hand)'
             /\ Whole(staged)' /\ installed.content >= promised'[installed.rev]
    BY <2>3, <2>4 DEF ContentInv
  <2>5. fence <= config.desired
    BY DEF ContentInv
  <2>6. e \in Builder /\ job'[e].at = "raise" /\ \A j \in Builder \ {e} : job'[j] = job[j]
    BY <2>1, Builders DEF JobTypes, JobOf
  <2>7. /\ \A j \in Builder : job'[j].at \notin Looking => job'[j].rev <= config.desired
        /\ \A j \in Builder : job'[j].at \in Carrying
                               => job'[j].content >= promised'[job'[j].rev]
    <3>1. \A j \in Builder : job'[j].at \notin Looking => job'[j] = job[j]
                                                          /\ job[j].rev <= config.desired
      BY <2>6 DEF Looking, ContentInv
    <3>2. \A j \in Builder : job'[j].at \in Carrying
                              => /\ job'[j] = job[j] /\ job[j].content >= promised[job[j].rev]
                                 /\ job[j].rev # r
      BY <1>1, <2>2, <2>6 DEF Looking, Carrying, ContentInv
    <3> QED BY <1>1, <2>4, <3>1, <3>2
  <2>8. ASSUME NEW w \in HeldOf(R), Whole(w), w.rev <= fence PROVE Whole(w)'
    <3>1. w # NoWire => w.rev \in R
      BY DEF HeldOf, WireOf, OfKind
    <3>2. w # NoWire => promised'[w.rev] = promised[w.rev]
      BY <1>1, <2>2, <2>4, <2>5, <2>8, <3>1
    <3> QED BY <2>8, <3>2 DEF Whole
  <2>9. \A i \in 1 .. Len(wires) : Whole(wires[i])'
    <3>1. ASSUME NEW i \in 1 .. Len(wires) PROVE Whole(wires[i])'
      <4>1. wires[i] \in HeldOf(R) /\ Whole(wires[i]) /\ wires[i].rev <= fence
        BY RevisionParts, NoWireTypes DEF ContentInv, FenceInv
      <4>2. promised' = promised' /\ wires'[i] = wires[i]
        BY <2>3
      <4> DEFINE w == wires[i]
      <4>3. Whole(w)'
        BY <2>8, <4>1, <4>2 DEF Whole
      <4> QED BY <4>3
    <3> QED BY <3>1
  <2>10. \A s \in Session : Whole(uplink[s].hand)'
    <3>1. ASSUME NEW s \in Session PROVE Whole(uplink[s].hand)'
      <4>1. uplink[s].hand \in HeldOf(R) /\ Whole(uplink[s].hand) /\ uplink[s].hand.rev <= fence
        BY RevisionParts DEF ContentInv, FenceInv
      <4> QED BY <2>3, <2>8, <4>1 DEF Whole
    <3> QED BY <3>1
  <2>11. Whole(staged)'
    <3>1. staged \in HeldOf(R) /\ Whole(staged) /\ staged.rev <= fence
      BY DEF ContentInv, FenceInv, ConfigTypes, NodeTypes
    <3> QED BY <2>3, <2>8, <3>1 DEF Whole
  <2>12. installed.content >= promised'[installed.rev]
    <3>1. installed.rev <= fence /\ installed.content >= promised[installed.rev]
      BY DEF ContentInv, FenceInv
    <3>2. installed.rev # r
      BY <1>1, <2>2, <2>5, <3>1, RevisionParts
    <3> QED BY <1>1, <2>4, <3>1, <3>2
  <2> QED BY <2>7, <2>9, <2>10, <2>11, <2>12
<1>3. ASSUME NEW e \in Editor, Raise(e) PROVE ContentInv'
  <2>1. /\ config'.desired = job[e].rev /\ lowered' = (lowered \/ config.desired > job[e].rev)
        /\ UNCHANGED <<wires, fence, staged, installed, uplink, promised, content>>
    BY <1>3 DEF Raise, StatusTypes, queueVars, nodeVars
  <2>2. /\ e \in Builder /\ job'[e].at = "build" /\ job'[e].rev = job[e].rev
        /\ \A j \in Builder \ {e} : job'[j] = job[j]
    BY <1>3, Builders DEF Raise, To, JobTypes, JobOf
  <2>3. SUFFICES ASSUME ~lowered'
        PROVE  /\ fence <= config'.desired
               /\ \A j \in Builder : job'[j].at \notin Looking => job'[j].rev <= config'.desired
               /\ \A j \in Builder : job'[j].at \in Carrying
                                      => job'[j].content >= promised[job'[j].rev]
    BY <2>1 DEF ContentInv, Whole
  <2>4. ~lowered /\ config.desired <= config'.desired /\ config'.desired \in Nat /\ e \in Builder
    <3>1. ~lowered /\ ~(config.desired > job[e].rev)
      BY <2>1, <2>3, Zenon
    <3> QED BY <1>1, <2>1, <2>2, <3>1
  <2>5. fence <= config'.desired
    BY <1>1, <2>4 DEF ContentInv
  <2>6. ASSUME NEW j \in Builder, job'[j].at \notin Looking
        PROVE  job'[j].rev <= config'.desired
    <3>1. CASE j = e
      BY <1>1, <2>1, <2>2, <2>4, <3>1
    <3>2. CASE j # e
      <4>1. job'[j] = job[j] /\ job[j].rev <= config.desired
        BY <2>2, <2>4, <2>6, <3>2 DEF ContentInv
      <4> QED BY <1>1, <2>4, <4>1
    <3> QED BY <3>1, <3>2
  <2>7. ASSUME NEW j \in Builder, job'[j].at \in Carrying
        PROVE  job'[j].content >= promised[job'[j].rev]
    <3>1. j # e /\ job'[j] = job[j]
      BY <2>2, <2>7 DEF Carrying
    <3> QED BY <2>4, <2>7, <3>1 DEF ContentInv
  <2> QED BY <2>5, <2>6, <2>7
<1>4. ASSUME UNCHANGED <<promised, lowered>>, config'.desired = config.desired,
             content' = content \/ content' = content + 1,
             \A j \in Builder :
                 \/ job'[j] = job[j] \/ job'[j].at \in {"none", "choose", "look"}
                 \/ /\ job'[j].rev = job[j].rev /\ job'[j].content = job[j].content
                    /\ job[j].at \notin Looking
                    /\ job'[j].at \in Carrying => job[j].at \in Carrying
                 \/ job'[j].at = "build" /\ job'[j].rev = config.desired
                 \/ /\ job[j].at = "build" /\ job'[j].content = content
                    /\ job'[j].rev = job[j].rev
      PROVE  ContentInv'
  <2>1. \A r \in Revision : promised'[r] <= content'
    BY <1>1, <1>4 DEF ContentInv
  <2>2. SUFFICES ASSUME ~lowered
        PROVE  /\ fence' <= config.desired
               /\ \A j \in Builder : job'[j].at \notin Looking => job'[j].rev <= config.desired
               /\ \A j \in Builder : job'[j].at \in Carrying
                                      => job'[j].content >= promised[job'[j].rev]
               /\ \A i \in 1 .. Len(wires') : Whole(wires[i])'
               /\ \A s \in Session : Whole(uplink[s].hand)'
               /\ Whole(staged)' /\ installed'.content >= promised'[installed'.rev]
    BY <1>4, <2>1 DEF ContentInv
  <2>3. fence' <= config.desired
    <3>1. fence' = fence \/ \E j \in Builder : ReplaceQueue(j)
      BY StillSteps, ReturnParts, PopParts, ReceiveParts DEF Still
    <3>2. ASSUME NEW j \in Builder, ReplaceQueue(j) PROVE fence' = fence \/ fence' = job[j].rev
      BY <3>2, ReplaceParts DEF queueVars
    <3>3. ASSUME NEW j \in Builder, ReplaceQueue(j) PROVE job[j].rev <= config.desired
      BY <2>2, <3>3 DEF ReplaceQueue, At, Looking, ContentInv
    <3> QED BY <2>2, <3>1, <3>2, <3>3 DEF ContentInv
  <2>4. ASSUME NEW j \in Builder, job'[j].at \notin Looking
        PROVE  job'[j].rev <= config.desired
    <3>1. job[j].at \notin Looking => job[j].rev <= config.desired
      BY <2>2 DEF ContentInv
    <3>2. \/ job'[j].rev = job[j].rev /\ job[j].at \notin Looking
          \/ job'[j].rev = config.desired
      BY <1>4, <2>4 DEF Looking
    <3> QED BY <1>1, <3>1, <3>2
  <2>5. ASSUME NEW j \in Builder, job'[j].at \in Carrying
        PROVE  job'[j].content >= promised[job'[j].rev]
    <3>1. job[j].at \in Carrying => job[j].content >= promised[job[j].rev]
      BY <2>2 DEF ContentInv
    <3>2. promised[job[j].rev] <= content
      BY <1>1 DEF ContentInv
    <3>3. \/ /\ job'[j].rev = job[j].rev /\ job'[j].content = job[j].content
             /\ job[j].at \in Carrying
          \/ job'[j].content = content /\ job'[j].rev = job[j].rev
      BY <1>4, <2>5 DEF Carrying
    <3> QED BY <1>1, <3>1, <3>2, <3>3
  <2>6. /\ \A j \in Builder : job[j].at = "queue" => job[j].content >= promised[job[j].rev]
        /\ \A i \in 1 .. Len(wires) : Whole(wires[i])
        /\ \A s \in Session : Whole(uplink[s].hand)
        /\ Whole(staged) /\ installed.content >= promised[installed.rev]
    BY <2>2 DEF ContentInv, Carrying
  <2>7. /\ \A i \in 1 .. Len(wires') : Whole(wires[i])'
        /\ \A s \in Session : Whole(uplink[s].hand)'
        /\ Whole(staged)' /\ installed'.content >= promised'[installed'.rev]
    BY <1>4, <2>6, WholeSteps
  <2> QED BY <2>3, <2>4, <2>5, <2>7
<1> QED BY <1>2, <1>3, <1>4, ContentSteps

\* Every revision has been chosen for a change, and each choice raises the largest of
\* them by one, or to the clock.
Choosing == {e \in Editor : At(e, "choose")}
Top == MaxClock + content - Cardinality(Choosing)
TopInv ==
  /\ IsFiniteSet(Choosing) /\ Cardinality(Choosing) <= content
  /\ \E n \in Nat : n <= Top /\ ConfigTypes(0 .. n)

\* Only a change begins to choose.
LEMMA ChoosingSteps ==
  ASSUME NEW R, ConfigTypes(R), NextEdgeConfig, \A e \in Editor : ~Edit(e)
  PROVE  content' = content /\ Choosing' \subseteq Choosing
<1> JobTypes(R) /\ KeyTypes
  BY DEF ConfigTypes
<1> DEFINE Fewer == \A j \in Builder : job'[j].at = "choose" => job[j].at = "choose"
<1> USE DEF rowVars
<1>1. job' = job => Fewer
  OBVIOUS
<1>2. ASSUME NEW j \in Builder, NEW x, To(j, x), x # "choose" PROVE Fewer
  BY <1>2 DEF To, JobTypes, JobOf
<1>3. ASSUME NEW j \in Builder, NEW x, job' = [job EXCEPT ![j] = x], x.at # "choose"
      PROVE  Fewer
  BY <1>3 DEF JobTypes
<1>4. NoJob.at # "choose" /\ [NoJob EXCEPT !.at = "look"].at # "choose"
  BY DEF NoJob
<1>5. ASSUME NEW j \in Builder, EndJob(j) PROVE Fewer
  BY <1>3, <1>4, <1>5 DEF EndJob
<1>6. ASSUME NEW e \in Editor, Choose(e) PROVE content' = content /\ Fewer
  BY <1>6, Builders DEF Choose, JobTypes, JobOf
<1>7. ASSUME NEW e \in Editor, Raise(e) PROVE content' = content /\ Fewer
  BY <1>2, <1>7, Builders DEF Raise
<1>8. ASSUME NEW j \in Builder, Look(j) PROVE content' = content /\ Fewer
  <2>1. content' = content
    BY <1>8 DEF Look
  <2>2. CASE EndJob(j)
    BY <1>5, <2>1, <2>2
  <2>3. CASE job' = [job EXCEPT ![j] = [at |-> "build", rev |-> config.desired,
                                        content |-> 0, state |-> config.state]]
    BY <2>1, <2>3 DEF JobTypes
  <2> QED BY <1>8, <2>2, <2>3 DEF Look
<1>9. ASSUME NEW j \in Builder, Build(j) PROVE content' = content /\ Fewer
  <2>1. ASSUME NEW x \in {"record", "claim"},
               job' = [job EXCEPT ![j].content = content, ![j].at = x]
        PROVE  Fewer
    BY <2>1 DEF JobTypes, JobOf
  <2>2. ASSUME NEW x \in {"rejected", "unsupported"}, To(j, x) PROVE Fewer
    BY <1>2, <2>2
  <2> HIDE DEF Fewer
  <2> QED BY <1>9, <2>1, <2>2 DEF Build
<1>10. ASSUME NEW j \in Builder, Refuse(j) \/ ClaimReplay(j) \/ RecordRevision(j)
       PROVE  content' = content /\ Fewer
  BY <1>2, <1>5, <1>10 DEF Refuse, ClaimReplay, RecordRevision
<1>11. ASSUME NEW j \in Builder, ReplaceQueue(j) \/ NotifyNode(j)
       PROVE  content' = content /\ Fewer
  BY <1>2, <1>3, <1>4, <1>11 DEF ReplaceQueue, NotifyNode
<1>12. ASSUME NEW j \in Builder, JobFails(j) PROVE content' = content /\ Fewer
  <2>1. PICK x \in {NoJob, [NoJob EXCEPT !.at = "look"]} : job' = [job EXCEPT ![j] = x]
    BY <1>12 DEF JobFails
  <2>2. Fewer
    BY <1>3, <1>4, <2>1
  <2> QED BY <1>12, <2>2 DEF JobFails
<1>13. ASSUME NEW s \in Session, SessionDies(s) \/ ProjectReport(s)
       PROVE  content' = content /\ Fewer
  BY <1>2, <1>3, <1>4, <1>13, Builders DEF SessionDies, ProjectReport
<1>14. ASSUME NEW s \in Session, Connect(s) \/ PopWire(s) \/ Drained(s) \/ SendWire(s)
                                 \/ ReturnWire(s) \/ EndSession(s) \/ ReadRest(s)
                                 \/ TurnAway(s) \/ LoseKey(s) \/ ProjectIngress(s)
       PROVE  content' = content /\ Fewer
  BY <1>1, <1>14 DEF Connect, Dial, PublishHello, ClaimSession, Greet, PopWire, Drained,
     SendWire, ReturnWire, EndSession, ReadRest, TurnAway, LoseKey, ProjectIngress
<1>15. BreakLink \/ HolderExpires \/ SendAnswer \/ SendReport => content' = content /\ Fewer
  BY <1>1 DEF BreakLink, HolderExpires, SendAnswer, SendReport
<1>16. ASSUME Heartbeat PROVE content' = content /\ Fewer
  <2>1. link \in Builder
    BY <1>16, Builders DEF Heartbeat, Readable, IsOpen, KeyTypes
  <2> QED BY <1>16, <2>1 DEF Heartbeat, JobTypes, JobOf
<1> HIDE DEF Fewer
<1>17. content' = content /\ Fewer
  BY <1>6, <1>7, <1>8, <1>9, <1>10, <1>11, <1>12, <1>13, <1>14, <1>15, <1>16,
     Builders
  DEF NextEdgeConfig, Work, Connect, Serve, GiveUp, NodeSends
<1> QED BY <1>17, Builders DEF Fewer, Choosing, At

LEMMA ConfigStepTop ==
  ASSUME TopInv, HelloAtHand, NextEdgeConfig
  PROVE  TopInv'
<1>1. PICK n \in Nat : n <= Top /\ ConfigTypes(0 .. n)
  BY DEF TopInv
<1>2. /\ JobTypes(0 .. n) /\ StatusTypes(0 .. n) /\ content \in Nat
      /\ clock \in 1 .. Larger(1, MaxClock)
  BY <1>1 DEF ConfigTypes, ChangeTypes
<1>3. IsFiniteSet(Choosing) /\ Cardinality(Choosing) \in Nat /\ Cardinality(Choosing) <= content
  BY FS_CardinalityType DEF TopInv
<1>4. (\A f \in Editor : ~Choose(f)) => ConfigTypes(0 .. n)'
  BY <1>1, ConfigStepTypes
<1>5. ASSUME NEW e \in Editor, Edit(e) PROVE TopInv'
  <2>1. Choosing' = Choosing \cup {e} /\ e \notin Choosing
    BY <1>2, <1>5, Builders DEF Edit, At, To, Choosing, JobTypes, JobOf
  <2>2. IsFiniteSet(Choosing') /\ Cardinality(Choosing') = Cardinality(Choosing) + 1
    BY <1>3, <2>1, FS_AddElement
  <2>3. content' = content + 1
    BY <1>5 DEF Edit
  <2>4. \A f \in Editor : ~Choose(f)
    BY <1>2, <1>5, <2>3 DEF Choose
  <2>5. Top' = Top /\ Cardinality(Choosing') <= content'
    BY <1>2, <1>3, <2>2, <2>3 DEF Top
  <2> QED BY <1>1, <1>4, <2>2, <2>4, <2>5 DEF TopInv
<1>6. ASSUME NEW e \in Editor, Choose(e) PROVE TopInv'
  <2> DEFINE r == Larger(clock', Larger(config.desired, config.active) + 1)
  <2>1. clock' \in Nat /\ clock' <= MaxClock
    BY <1>2, <1>6 DEF Choose, Larger
  <2>2. config.desired \in 0 .. n /\ config.active \in 0 .. n
    BY <1>2 DEF StatusTypes
  <2>3. r \in Nat /\ (r <= MaxClock \/ r <= n + 1)
    BY <2>1, <2>2 DEF Larger
  <2>4. PICK m \in Nat : n <= m /\ r <= m /\ (m <= MaxClock \/ m <= n + 1)
    <3>1. CASE r <= n
      BY <2>3, <3>1
    <3>2. CASE r > n
      BY <2>3, <3>2
    <3> QED BY <2>3, <3>1, <3>2
  <2>5. \A f \in Editor : Choose(f) => job'[f].rev = r
    BY <1>2, Builders DEF Choose, JobTypes, JobOf
  <2>6. Choosing' = Choosing \ {e} /\ e \in Choosing
    BY <1>2, <1>6, Builders DEF Choose, At, Choosing, JobTypes, JobOf
  <2>7. content' = content
    BY <1>6 DEF Choose
  <2> HIDE DEF r
  <2>8. IsFiniteSet(Choosing') /\ Cardinality(Choosing') = Cardinality(Choosing) - 1
    BY <1>3, <2>6, FS_RemoveElement
  <2>9. 0 .. n \subseteq 0 .. m /\ 0 \in 0 .. m /\ r \in 0 .. m
    BY <2>3, <2>4
  <2>10. ConfigTypes(0 .. m)
    BY <1>1, <2>9, ConfigTypesGrow
  <2>11. ConfigTypes(0 .. m)'
    BY <2>5, <2>9, <2>10, ConfigStepTypes
  <2>12. m <= Top' /\ Cardinality(Choosing') <= content'
    BY <1>1, <1>2, <1>3, <2>4, <2>7, <2>8 DEF Top
  <2> QED BY <2>4, <2>8, <2>11, <2>12 DEF TopInv
<1>7. ASSUME \A e \in Editor : ~Edit(e), \A e \in Editor : ~Choose(e) PROVE TopInv'
  <2>1. content' = content /\ Choosing' \subseteq Choosing
    BY <1>1, <1>7, ChoosingSteps
  <2>2. /\ IsFiniteSet(Choosing') /\ Cardinality(Choosing') \in Nat
        /\ Cardinality(Choosing') <= Cardinality(Choosing)
    BY <1>3, <2>1, FS_Subset, FS_CardinalityType
  <2>3. n <= Top' /\ Cardinality(Choosing') <= content'
    BY <1>1, <1>2, <1>3, <2>1, <2>2 DEF Top
  <2> QED BY <1>1, <1>4, <1>7, <2>2, <2>3 DEF TopInv
<1> QED BY <1>5, <1>6, <1>7

EdgeConfigInv ==
  TopInv /\ KeyInv /\ FenceInv /\ LowInv /\ SaidInv /\ ContentInv

\* The revisions of a state, all below the bound the model gives them.
LEMMA RevisionsOf ==
  ASSUME TopInv
  PROVE  \E R \in SUBSET Nat : 0 \in R /\ R \subseteq Revision /\ ConfigTypes(R)
<1>1. PICK n \in Nat : n <= Top /\ ConfigTypes(0 .. n)
  BY DEF TopInv
<1>2. content \in Nat /\ content <= MaxEdits
  BY <1>1 DEF ConfigTypes, ChangeTypes
<1>3. Cardinality(Choosing) \in Nat
  BY FS_CardinalityType DEF TopInv
<1>4. n <= MaxClock + MaxEdits
  BY <1>1, <1>2, <1>3 DEF Top
<1> QED BY <1>1, <1>4 DEF Revision

LEMMA EdgeConfigBegins == InitEdgeConfig => EdgeConfigInv
<1> SUFFICES ASSUME InitEdgeConfig PROVE EdgeConfigInv
  OBVIOUS
<1> USE DEF InitEdgeConfig
<1>1. TopInv
  <2>1. ConfigTypes(0 .. 0)
    <3>1. ChangeTypes(0 .. 0) /\ StatusTypes(0 .. 0)
      BY DEF ChangeTypes, StatusTypes, Larger, RowState
    <3>5. /\ KeyTypes /\ promised \in [Revision -> 0 .. MaxEdits]
          /\ claimant \in Session \cup {NoSession}
      BY DEF KeyTypes
    <3>7. lowered \in BOOLEAN /\ returned \subseteq Session
      BY Zenon
    <3>8. losses \in 0 .. MaxLosses
      OBVIOUS
    <3>6. PastTypes
      BY <3>5, <3>7, <3>8, Zenon DEF PastTypes
    <3>2. QueueTypes(0 .. 0) /\ IngressTypes(0 .. 0)
      BY DEF QueueTypes, IngressTypes
    <3>3. UplinkTypes(0 .. 0) /\ NodeTypes(0 .. 0)
      BY NoWireTypes DEF UplinkTypes, UplinkOf, NodeTypes
    <3>4. JobTypes(0 .. 0)
      BY DEF JobTypes, JobOf, JobStage, NoJob
    <3> QED BY <3>1, <3>2, <3>3, <3>4, <3>5, <3>6 DEF ConfigTypes
  <2>2. Choosing = {}
    BY Builders DEF Choosing, At, NoJob
  <2>3. IsFiniteSet(Choosing) /\ Cardinality(Choosing) = 0
    BY <2>2, FS_EmptySet
  <2>4. 0 <= Top /\ Cardinality(Choosing) <= content
    BY <2>3 DEF Top
  <2>5. \E n \in Nat : n <= Top /\ ConfigTypes(0 .. n)
    <3>1. 0 \in Nat
      OBVIOUS
    <3> WITNESS 0 \in Nat
    <3> QED BY <2>1, <2>4
  <2> QED BY <2>3, <2>4, <2>5 DEF TopInv
<1>2. KeyInv
  BY Builders DEF KeyInv, HelloAtHand
<1>3. FenceInv /\ LowInv
  BY DEF FenceInv, LowInv, LowQueue, LowHand, Low, NoWire, NoSession
<1>4. SaidInv
  BY DEF SaidInv, Holds, NoWire
<1>5. ContentInv
  BY DEF ContentInv, Whole, NoWire, NoJob, Looking, Carrying, Revision
<1> QED BY <1>1, <1>2, <1>3, <1>4, <1>5 DEF EdgeConfigInv

LEMMA EdgeConfigSteps == EdgeConfigInv /\ [NextEdgeConfig]_edgeConfigVars => EdgeConfigInv'
<1>1. ASSUME EdgeConfigInv, NextEdgeConfig PROVE EdgeConfigInv'
  <2>1. PICK R \in SUBSET Nat : 0 \in R /\ R \subseteq Revision /\ ConfigTypes(R)
    BY <1>1, RevisionsOf DEF EdgeConfigInv
  <2>2. TopInv'
    BY <1>1, ConfigStepTop DEF EdgeConfigInv, KeyInv
  <2>3. KeyInv' /\ FenceInv' /\ LowInv'
    BY <1>1, <2>1, ConfigStepKeys, ConfigStepFence, ConfigStepLow
       DEF EdgeConfigInv
  <2>4. returned \subseteq returned'
    <3>1. returned' = returned \/ \E s \in Session : ReturnWire(s)
      BY <1>1, <2>1, StillSteps, ReplaceParts, PopParts, ReceiveParts DEF Still,
         EdgeConfigInv
    <3> QED BY <3>1 DEF ReturnWire
  <2>5. SaidInv'
    BY <1>1, <2>1, <2>4, ConfigStepSaid DEF EdgeConfigInv
  <2>6. ContentInv'
    BY <1>1, <2>1, ConfigStepContent DEF EdgeConfigInv
  <2> QED BY <2>2, <2>3, <2>5, <2>6 DEF EdgeConfigInv
<1>2. ASSUME EdgeConfigInv, UNCHANGED edgeConfigVars PROVE EdgeConfigInv'
  <2> USE <1>2 DEF edgeConfigVars, rowVars, queueVars, nodeVars, pastVars
  <2>1. /\ UNCHANGED <<content, config, recorded, supported, clock, wires, fence, holder>>
        /\ UNCHANGED <<incoming, job, uplink, link, staged, installed, answer>>
        /\ UNCHANGED <<promised, claimant, lowered, returned, losses>>
    OBVIOUS
  <2>2. Choosing' = Choosing /\ Top' = Top
    BY <2>1 DEF Choosing, At, Top
  <2>3. ASSUME NEW R, ConfigTypes(R) PROVE ConfigTypes(R)'
    BY <2>1, <2>3 DEF ConfigTypes, ChangeTypes, StatusTypes, QueueTypes,
       UplinkTypes,
                      IngressTypes, KeyTypes, NodeTypes, JobTypes, PastTypes
  <2>4. TopInv'
    BY <2>1, <2>2, <2>3 DEF TopInv, EdgeConfigInv
  <2>5. FewWiresReturn' = FewWiresReturn
    BY <2>1 DEF FewWiresReturn
  <2>6. KeyInv' /\ FenceInv' /\ LowInv'
    BY <2>1, <2>5 DEF EdgeConfigInv, KeyInv, HelloAtHand, FenceInv, LowInv,
       LowQueue, LowHand, Low
  <2>7. SaidInv' /\ ContentInv'
    BY <2>1, <2>5 DEF EdgeConfigInv, SaidInv, Holds, ContentInv, Whole
  <2> QED BY <2>4, <2>6, <2>7 DEF EdgeConfigInv
<1> QED BY <1>1, <1>2

LEMMA EdgeConfigIsSafe == EdgeConfigInv => EdgeConfigSafety
<1> SUFFICES ASSUME EdgeConfigInv PROVE EdgeConfigSafety
  OBVIOUS
<1>1. PICK R \in SUBSET Nat : 0 \in R /\ R \subseteq Revision /\ ConfigTypes(R)
  BY RevisionsOf DEF EdgeConfigInv
<1>2. ConfigTypes(Revision)
  BY <1>1, ConfigTypesGrow
<1>3. /\ WireOf(Revision) \subseteq Wires /\ MessageOf(Revision) \subseteq Wires
      /\ AnswerOf(Revision) \subseteq Wires /\ HeldOf(Revision) \subseteq Wires
      /\ RestOf(Revision) \subseteq Wires
  BY DEF WireOf, MessageOf, AnswerOf, RestOf, HeldOf, OfKind, Wires, NoWire, Revision
<1>4. EdgeConfigTypeOK
  <2>1. wires \in Seq(Wires) /\ \A s \in Session : incoming[s] \in Seq(Wires)
    BY <1>2, <1>3 DEF ConfigTypes, QueueTypes, IngressTypes
  <2>2. \A s \in Session : {uplink[s].hand, uplink[s].rest} \subseteq Wires
    BY <1>2, <1>3 DEF ConfigTypes, UplinkTypes, UplinkOf
  <2>3. {staged, answer} \subseteq Wires
    BY <1>2, <1>3 DEF ConfigTypes, NodeTypes
  <2>4. \A j \in Builder : job[j].rev \in Revision /\ job[j].content \in 0 .. MaxEdits
    BY <1>2 DEF ConfigTypes, JobTypes, JobOf
  <2>5. /\ content \in 0 .. MaxEdits /\ clock \in 1 .. Larger(1, MaxClock)
        /\ config \in [desired : Revision, active : Revision,
             state : {"idle", "pending", "applied", "rejected", "unsupported"}]
        /\ recorded \subseteq Revision /\ supported \in BOOLEAN /\ fence \in Revision
    BY <1>2 DEF ConfigTypes, ChangeTypes, StatusTypes, QueueTypes, RowState
  <2>6. /\ holder \in Session \cup {NoSession} /\ link \in Session \cup {NoSession}
        /\ promised \in [Revision -> 0 .. MaxEdits] /\ claimant \in Session \cup {NoSession}
        /\ lowered \in BOOLEAN /\ returned \subseteq Session /\ losses \in 0 .. MaxLosses
    BY <1>2 DEF ConfigTypes, KeyTypes, PastTypes
  <2> QED BY <2>1, <2>2, <2>3, <2>4, <2>5, <2>6, Zenon DEF EdgeConfigTypeOK
<1>5. AppliedIsHonest
  <2>1. SUFFICES ASSUME FewWiresReturn, config.state = "applied"
        PROVE  /\ installed.rev >= config.desired
               /\ ~lowered => installed.content >= promised[config.desired]
    BY DEF AppliedIsHonest
  <2>2. config.desired <= installed.rev
    BY <2>1 DEF EdgeConfigInv, SaidInv
  <2>3. config.desired \in Nat /\ installed.rev \in Nat /\ fence \in Nat
    BY <1>1 DEF ConfigTypes, StatusTypes, NodeTypes, QueueTypes
  <2>4. installed.rev <= fence
    BY DEF EdgeConfigInv, FenceInv
  <2>5. ~lowered => fence <= config.desired /\ installed.content >= promised[installed.rev]
    BY DEF EdgeConfigInv, ContentInv
  <2>6. ~lowered => installed.rev = config.desired
    BY <2>2, <2>3, <2>4, <2>5
  <2> QED BY <2>2, <2>3, <2>5, <2>6
<1>6. KeyIsItsOwn
  BY DEF KeyIsItsOwn, StateOf, EdgeConfigInv, KeyInv
<1> QED BY <1>4, <1>5, <1>6 DEF EdgeConfigSafety

\* When the row of a node says that its configuration is applied, the node runs the
\* desired revision or a later one, with all that was configured when it was chosen; and
\* the session that was the last to claim the session key has it until its connection has
\* ended: whatever editors and sessions build at the same time, in whatever order several
\* connections of the node are accepted, given up and ended, and whatever is lost, sent
\* again or returned to the queue (edge.service, the scripts of the queue and of the key,
\* EdgeGatewayController).
THEOREM ConfigurationsAreSafe == SpecEdgeConfig => []EdgeConfigSafety
<1>1. InitEdgeConfig => EdgeConfigInv
  BY EdgeConfigBegins
<1>2. EdgeConfigInv /\ [NextEdgeConfig]_edgeConfigVars => EdgeConfigInv'
  BY EdgeConfigSteps
<1>3. EdgeConfigInv => EdgeConfigSafety
  BY EdgeConfigIsSafe
<1> QED BY <1>1, <1>2, <1>3, PTL DEF SpecEdgeConfig

\* No step makes a node run an earlier revision than it ran (kReplaceQueueScript,
\* deliverQueuedItem).
THEOREM NodesNeverGoBack == SpecEdgeConfig => NodeNeverGoesBack
<1>1. ASSUME EdgeConfigInv, [NextEdgeConfig]_edgeConfigVars
      PROVE  [FewWiresReturn => installed'.rev >= installed.rev]_edgeConfigVars
  <2>1. SUFFICES ASSUME NextEdgeConfig, FewWiresReturn PROVE installed'.rev >= installed.rev
    BY <1>1
  <2>2. PICK R \in SUBSET Nat : 0 \in R /\ R \subseteq Revision /\ ConfigTypes(R)
    BY <1>1, RevisionsOf DEF EdgeConfigInv
  <2> QED BY <1>1, <2>1, <2>2, ConfigStepOnward DEF EdgeConfigInv
<1> QED
  BY <1>1, EdgeConfigBegins, EdgeConfigSteps, PTL DEF SpecEdgeConfig,
     NodeNeverGoesBack
=============================================================================
