-------------------------- MODULE EventGroupsProofs --------------------------
(***************************************************************************)
(* Proofs about EventGroups for every set of tasks, bits and calls: the    *)
(* walk of xEventGroupSetBits releases exactly the waiters its bits        *)
(* suffice for, shown by induction along the list of waiters; GroupInv is  *)
(* shown inductive, one lemma per action, and with it that nobody sleeps   *)
(* through its bits and that the rendezvous is a barrier.                  *)
(***************************************************************************)
EXTENDS EventGroups, ListOpsProofs

ItemValues == [inUse : BOOLEAN, value : Int, bits : SUBSET Bits, clear : BOOLEAN,
               all : BOOLEAN, unblocked : BOOLEAN]

CallRecords == [bits : SUBSET Bits, clear : BOOLEAN, all : BOOLEAN,
                wait : {"none", "finite", "forever"}]

TypeOK ==
    /\ exists \in BOOLEAN
    /\ uxEventBits \in SUBSET Bits
    /\ xTasksWaitingForBits \in Seq(Tasks)
    /\ xItemValue \in [Tasks -> ItemValues]
    /\ uxPriority \in [Tasks -> Int]
    /\ pc \in [Tasks -> {"out", "blocked", "woken", "reset", "late"}]
    /\ call \in [Tasks -> CallRecords]
    /\ uxReturn \in [Tasks -> ItemValues]
    /\ uxPriorityRead \in [Tasks -> Int]
    /\ gaveUp \in SUBSET Participants

\* The blocked tasks are in the list, each once.
BlockedInList ==
    /\ NoDuplicates(xTasksWaitingForBits)
    /\ Waiting = {t \in Tasks : pc[t] = "blocked"}

\* The item value of a blocked task is what it waits for.
WaitNoted == \A t \in Waiting : xItemValue[t] = ForWait(call[t])

SyncCalls == {SyncCall(wait) : wait \in SyncWaits}

\* What a task inside a call has asked for.
CallsKnown ==
    \A t \in Tasks : pc[t] # "out" =>
        IF t \in Participants THEN call[t] \in SyncCalls ELSE call[t] \in Calls

\* The bits of the rendezvous are never all set between two calls: the last to come
\* clears them, so one that gave up long ago finds nothing to clear.
MeetingOpen == Participants # {} => ~(Rendezvous \subseteq uxEventBits)

\* Nobody in the list has what it waits for.
NoneSatisfied == \A t \in Waiting : ~TestWaitCondition(uxEventBits, call[t])

GroupInv ==
    /\ TypeOK /\ BlockedInList /\ WaitNoted
    /\ CallsKnown /\ MeetingOpen /\ NoneSatisfied /\ Barrier

-----------------------------------------------------------------------------
(***************************************************************************)
(* The walk                                                                *)
(***************************************************************************)

\* The waiters that bits suffice for.
Suffice(bits) == {t \in Waiting : TestWaitCondition(bits, xItemValue[t])}

\* The bits they clear.
ClearedBy(bits) == UNION {xItemValue[t].bits : t \in {u \in Suffice(bits) : xItemValue[u].clear}}

LEMMA ReleaseType ==
    ASSUME NEW bits \in SUBSET Bits
    PROVE  ForRelease(bits) \in ItemValues
  BY DEF ForRelease, ItemValues

\* One round leads from a state of the walk to a state of the walk.
WalkStates ==
    {r \in [item : [Tasks -> ItemValues], list : Seq(Tasks), clear : SUBSET Bits] :
        NoDuplicates(r.list)}

LEMMA VisitType ==
    ASSUME NEW bits \in SUBSET Bits, NEW r \in WalkStates, NEW t \in Tasks
    PROVE  Visit(bits, r, t) \in WalkStates
  <1>1. /\ r.item \in [Tasks -> ItemValues] /\ r.list \in Seq(Tasks)
        /\ r.clear \in SUBSET Bits /\ NoDuplicates(r.list)
    BY DEF WalkStates
  <1>2. ListRemove(r.list, t) \in Seq(Tasks) /\ NoDuplicates(ListRemove(r.list, t))
    BY <1>1, ListRemoveSet
  <1>3. [r.item EXCEPT ![t] = ForRelease(bits)] \in [Tasks -> ItemValues]
    BY <1>1, ReleaseType
  <1>4. r.item[t].bits \in SUBSET Bits
    BY <1>1 DEF ItemValues
  <1> DEFINE clear == IF r.item[t].clear THEN r.clear \cup r.item[t].bits ELSE r.clear
             s == [item |-> [r.item EXCEPT ![t] = ForRelease(bits)],
                   list |-> ListRemove(r.list, t), clear |-> clear]
  <1>5. clear \in SUBSET Bits
    BY <1>1, <1>4
  <1>6. s \in WalkStates
    <2> HIDE DEF clear
    <2> QED BY <1>2, <1>3, <1>5 DEF WalkStates
  <1>7. Visit(bits, r, t) = s \/ Visit(bits, r, t) = r
    BY DEF Visit
  <1> QED BY <1>6, <1>7

\* The walk has passed the waiters in D among those that bits suffice for.
Walked(bits, r, D) ==
    /\ r \in WalkStates
    /\ ToSet(r.list) = Waiting \ D
    /\ r.item = [t \in Tasks |-> IF t \in D THEN ForRelease(bits) ELSE xItemValue[t]]
    /\ r.clear = UNION {xItemValue[t].bits : t \in {u \in D : xItemValue[u].clear}}

LEMMA VisitEffect ==
    ASSUME TypeOK, NEW bits \in SUBSET Bits, NEW r, NEW D \in SUBSET Suffice(bits),
           Walked(bits, r, D), NEW t \in Waiting \ D
    PROVE  Walked(bits, Visit(bits, r, t), IF t \in Suffice(bits) THEN D \cup {t} ELSE D)
  <1>1. /\ r.item \in [Tasks -> ItemValues] /\ r.list \in Seq(Tasks)
        /\ r.clear \in SUBSET Bits /\ NoDuplicates(r.list) /\ r \in WalkStates
    BY DEF WalkStates, Walked
  <1>2. t \in Tasks /\ Waiting \subseteq Tasks
    BY ToSetSeq DEF TypeOK, Waiting
  <1>3. r.item[t] = xItemValue[t]
    BY <1>2 DEF Walked
  <1>4. CASE t \notin Suffice(bits)
    BY <1>3, <1>4 DEF Visit, Suffice
  <1>5. CASE t \in Suffice(bits)
    <2> DEFINE v == Visit(bits, r, t)
    <2>1. /\ v.item = [r.item EXCEPT ![t] = ForRelease(bits)]
          /\ v.list = ListRemove(r.list, t)
          /\ v.clear = IF xItemValue[t].clear THEN r.clear \cup xItemValue[t].bits ELSE r.clear
      BY <1>3, <1>5 DEF Visit, Suffice
    <2>2. v \in WalkStates
      BY <1>1, <1>2, VisitType
    <2> HIDE DEF v
    <2>3. ToSet(v.list) = Waiting \ (D \cup {t})
      <3>1. ToSet(v.list) = ToSet(r.list) \ {t}
        BY <1>1, <2>1, ListRemoveSet
      <3> QED BY <3>1 DEF Walked
    <2>4. v.item = [u \in Tasks |-> IF u \in D \cup {t} THEN ForRelease(bits)
                                                     ELSE xItemValue[u]]
      BY <1>2, <2>1 DEF Walked
    <2>5. v.clear = UNION {xItemValue[u].bits : u \in {w \in D \cup {t} : xItemValue[w].clear}}
      <3>1. {w \in D \cup {t} : xItemValue[w].clear} =
                {w \in D : xItemValue[w].clear} \cup (IF xItemValue[t].clear THEN {t} ELSE {})
        OBVIOUS
      <3> QED BY <2>1, <3>1 DEF Walked
    <2>6. Walked(bits, v, D \cup {t})
      BY <2>2, <2>3, <2>4, <2>5 DEF Walked
    <2> QED BY <1>5, <2>6 DEF v
  <1> QED BY <1>4, <1>5

\* The walk by its rounds.
LEMMA WalkRounds ==
    ASSUME TypeOK, NoDuplicates(xTasksWaitingForBits), NEW bits \in SUBSET Bits
    PROVE  \E round :
              /\ Walk(bits) = round[Len(xTasksWaitingForBits)]
              /\ round[0] = [item |-> xItemValue, list |-> xTasksWaitingForBits, clear |-> {}]
              /\ \A k \in 0 .. Len(xTasksWaitingForBits) - 1 :
                    round[k + 1] = Visit(bits, round[k], xTasksWaitingForBits[k + 1])
  <1> DEFINE l == xTasksWaitingForBits
             n == Len(l)
             base == [item |-> xItemValue, list |-> xTasksWaitingForBits, clear |-> {}]
             step == [x \in WalkStates \X (1 .. n) |-> Visit(bits, x[1], l[x[2]])]
  <1>1. n \in Nat /\ DOMAIN l = 1 .. n /\ \A i \in 1 .. n : l[i] \in Tasks
    BY ToSetSeq, ElementOfSeq DEF TypeOK
  <1>2. base \in WalkStates
    BY DEF TypeOK, WalkStates
  <1>3. step \in [WalkStates \X (1 .. n) -> WalkStates]
    <2>1. \A x \in WalkStates \X (1 .. n) : x[1] \in WalkStates /\ x[2] \in 1 .. n
      OBVIOUS
    <2> HIDE DEF l, n
    <2>2. \A x \in WalkStates \X (1 .. n) : Visit(bits, x[1], l[x[2]]) \in WalkStates
      BY <1>1, <2>1, VisitType
    <2> QED BY <2>2
  <1> HIDE DEF base, n
  <1>4. PICK f \in [SUBSET (1 .. n) -> WalkStates] :
           f = [S \in SUBSET (1 .. n) |->
                  IF S = {} THEN base ELSE step[<<f[S \ {Max(S)}], Max(S)>>]]
    <2>1. IsStep(step, n, WalkStates)
      BY <1>3 DEF IsStep
    <2> HIDE DEF step
    <2>2. \E f : IsFold(f, n, WalkStates, base, step)
      BY <1>1, <1>2, <2>1, FoldExists
    <2> QED BY <2>2 DEF IsFold
  <1>5. f = [S \in SUBSET DOMAIN l |->
               IF S = {} THEN base ELSE Visit(bits, f[S \ {Max(S)}], l[Max(S)])]
    <2>1. ASSUME NEW S \in SUBSET (1 .. n), S # {}
          PROVE  step[<<f[S \ {Max(S)}], Max(S)>>] = Visit(bits, f[S \ {Max(S)}], l[Max(S)])
      <3>1. Max(S) \in 1 .. n
        BY <1>1, <2>1, LastPlace
      <3>2. f[S \ {Max(S)}] \in WalkStates
        BY <1>4
      <3> QED BY <3>1, <3>2
    <2> HIDE DEF step, l
    <2> QED BY <1>1, <1>4, <2>1
  <1> DEFINE Solves(g) == g = [S \in SUBSET DOMAIN l |->
                 IF S = {} THEN base ELSE Visit(bits, g[S \ {Max(S)}], l[Max(S)])]
             g == CHOOSE iter : Solves(iter)
             round == [k \in 0 .. n |-> g[1 .. k]]
  <1>6. Walk(bits) = g[DOMAIN l]
    BY DEF Walk, FoldLeft, MapThenFoldSet, base
  <1>7. Solves(g)
    <2>1. Solves(f)
      BY <1>5
    <2> HIDE DEF Solves
    <2> QED BY <2>1
  <1> HIDE DEF g, step, l
  <1>8. \A k \in 0 .. n : round[k] = g[1 .. k]
    OBVIOUS
  <1> HIDE DEF round
  <1>9. Walk(bits) = round[n]
    BY <1>1, <1>6, <1>8
  <1>10. round[0] = base
    <2>1. 1 .. 0 = {}
      OBVIOUS
    <2>2. g[{}] = base
      BY <1>7
    <2> QED BY <1>1, <1>8, <2>1, <2>2
  <1>11. ASSUME NEW k \in 0 .. n - 1 PROVE round[k + 1] = Visit(bits, round[k], l[k + 1])
    <2>1. k \in Nat /\ k \in 0 .. n /\ k + 1 \in 0 .. n /\ 1 .. k + 1 \in SUBSET DOMAIN l
      BY <1>1
    <2>2. /\ Max(1 .. k + 1) = k + 1
          /\ (1 .. k + 1) \ {k + 1} = 1 .. k
          /\ 1 .. k + 1 # {}
      BY <2>1, FirstPlaces
    <2>3. g[1 .. k + 1] = Visit(bits, g[(1 .. k + 1) \ {Max(1 .. k + 1)}], l[Max(1 .. k + 1)])
      BY <1>7, <2>1, <2>2
    <2> QED BY <1>8, <2>1, <2>2, <2>3
  <1> QED BY <1>9, <1>10, <1>11 DEF l, n, base

\* What xEventGroupSetBits does to the waiters, however many there are: those that
\* its bits suffice for leave the list with these bits, and what they clear is cleared.
LEMMA WalkEffect ==
    ASSUME TypeOK, NoDuplicates(xTasksWaitingForBits), NEW bits \in SUBSET Bits
    PROVE  /\ Walk(bits).list \in Seq(Tasks)
           /\ NoDuplicates(Walk(bits).list)
           /\ ToSet(Walk(bits).list) = Waiting \ Suffice(bits)
           /\ Walk(bits).item = [t \in Tasks |-> IF t \in Suffice(bits) THEN ForRelease(bits)
                                                                   ELSE xItemValue[t]]
           /\ Walk(bits).clear = ClearedBy(bits)
           /\ Released(Walk(bits)) = Suffice(bits)
  <1> DEFINE l == xTasksWaitingForBits
             n == Len(l)
             Visited(k) == {t \in Suffice(bits) : \E i \in 1 .. k : l[i] = t}
  <1>1. /\ n \in Nat /\ DOMAIN l = 1 .. n /\ Waiting \subseteq Tasks
        /\ \A i \in 1 .. n : l[i] \in Waiting
        /\ \A t \in Waiting : \E i \in 1 .. n : l[i] = t
    BY ToSetSeq DEF TypeOK, Waiting
  <1>2. PICK round : /\ Walk(bits) = round[n]
                     /\ round[0] = [item |-> xItemValue, list |-> l, clear |-> {}]
                     /\ \A k \in 0 .. n - 1 : round[k + 1] = Visit(bits, round[k], l[k + 1])
    BY WalkRounds
  <1> DEFINE Holds(k) == k <= n => Walked(bits, round[k], Visited(k))
             P == [k \in Nat |-> Holds(k)]
  <1>3. Holds(0)
    <2>1. Visited(0) = {}
      OBVIOUS
    <2>2. round[0] \in WalkStates
      BY <1>2 DEF TypeOK, WalkStates
    <2>3. xItemValue = [t \in Tasks |-> xItemValue[t]]
      BY DEF TypeOK
    <2> HIDE DEF Visited
    <2>4. Walked(bits, round[0], {})
      BY <1>2, <2>2, <2>3 DEF Walked, Waiting
    <2> QED BY <2>1, <2>4
  <1>4. ASSUME NEW k \in Nat, Holds(k) PROVE Holds(k + 1)
    <2> SUFFICES ASSUME k + 1 <= n PROVE Walked(bits, round[k + 1], Visited(k + 1))
      OBVIOUS
    <2> DEFINE t == l[k + 1]
    <2>1. k \in 0 .. n - 1 /\ k <= n /\ k + 1 \in 1 .. n
      BY <1>1
    <2>2. Walked(bits, round[k], Visited(k)) /\ round[k + 1] = Visit(bits, round[k], t)
      BY <1>2, <1>4, <2>1
    <2>3. t \in Waiting \ Visited(k)
      <3>1. \A i \in 1 .. k : l[i] # l[k + 1]
        BY <1>1, <2>1 DEF NoDuplicates
      <3> QED BY <1>1, <2>1, <3>1
    <2>4. Visited(k + 1) = IF t \in Suffice(bits) THEN Visited(k) \cup {t} ELSE Visited(k)
      <3>1. 1 .. k + 1 = (1 .. k) \cup {k + 1}
        OBVIOUS
      <3> QED BY <3>1
    <2>5. Visited(k) \in SUBSET Suffice(bits)
      OBVIOUS
    <2> HIDE DEF Visited, t, l, n, Holds, P
    <2>6. Walked(bits, Visit(bits, round[k], t),
                 IF t \in Suffice(bits) THEN Visited(k) \cup {t} ELSE Visited(k))
      BY <2>2, <2>3, <2>5, VisitEffect
    <2> QED BY <2>2, <2>4, <2>6
  <1>5. Holds(n)
    <2> HIDE DEF Holds, n, l
    <2>1. \A k \in Nat : P[k] <=> Holds(k)
      OBVIOUS
    <2> HIDE DEF P
    <2>2. P[0] /\ \A k \in Nat : P[k] => P[k + 1]
      BY <1>3, <1>4, <2>1
    <2>3. \A k \in Nat : P[k]
      BY <2>2, Induction
    <2> QED BY <1>1, <2>1, <2>3
  <1>6. Visited(n) = Suffice(bits)
    BY <1>1 DEF Suffice
  <1>7. Walked(bits, Walk(bits), Suffice(bits))
    <2> HIDE DEF Visited
    <2> QED BY <1>1, <1>2, <1>5, <1>6
  <1>8. Released(Walk(bits)) = Suffice(bits)
    BY <1>7 DEF Walked, Released, Waiting, Suffice
  <1> QED BY <1>7, <1>8 DEF Walked, WalkStates, ClearedBy

-----------------------------------------------------------------------------
(***************************************************************************)
(* Who is released                                                         *)
(***************************************************************************)

LEMMA TestFewerBits ==
    ASSUME NEW A, NEW B, A \subseteq B, NEW w, TestWaitCondition(A, w)
    PROVE  TestWaitCondition(B, w)
  BY DEF TestWaitCondition

LEMMA TestForWait ==
    ASSUME NEW bits, NEW c
    PROVE  /\ TestWaitCondition(bits, ForWait(c)) <=> TestWaitCondition(bits, c)
           /\ ForWait(c).bits = c.bits /\ ForWait(c).clear = c.clear
           /\ ForWait(c).inUse /\ ~ForWait(c).unblocked
  BY DEF TestWaitCondition, ForWait

LEMMA WaitType ==
    ASSUME NEW c \in CallRecords
    PROVE  ForWait(c) \in ItemValues
  BY DEF ForWait, CallRecords, ItemValues

LEMMA PriorityType ==
    ASSUME NEW p \in Int
    PROVE  ForPriority(p) \in ItemValues
  BY DEF ForPriority, ItemValues, MaxPriorities

\* The calls are well formed, and only those of xEventGroupSync touch the rendezvous.
LEMMA CallTypes ==
    /\ Rendezvous \subseteq Bits
    /\ NoCall \in CallRecords
    /\ \A c \in SyncCalls :
          /\ c \in CallRecords /\ c.bits = Rendezvous
          /\ \A bits : TestWaitCondition(bits, c) <=> Rendezvous \subseteq bits
    /\ \A c \in Calls : c \in CallRecords /\ c.bits \cap Rendezvous = {}
    /\ \A m \in BitMasks : m \subseteq Bits /\ m \cap Rendezvous = {}
  <1>1. Rendezvous \subseteq Bits
    BY EventGroupsAssumption DEF EventGroupsAssumption, Rendezvous
  <1>2. NoCall \in CallRecords
    BY DEF NoCall, CallRecords
  <1>3. ASSUME NEW wait \in SyncWaits
        PROVE  /\ SyncCall(wait) \in CallRecords /\ SyncCall(wait).bits = Rendezvous
               /\ \A bits : TestWaitCondition(bits, SyncCall(wait)) <=> Rendezvous \subseteq bits
    <2>1. wait \in {"none", "finite", "forever"}
      BY EventGroupsAssumption DEF EventGroupsAssumption
    <2> QED BY <1>1, <2>1 DEF TestWaitCondition, SyncCall, CallRecords
  <1>4. ASSUME NEW c \in Calls PROVE c \in CallRecords /\ c.bits \cap Rendezvous = {}
    <2>1. c \in [bits : SUBSET (Bits \ Rendezvous) \ {{}}, clear : BOOLEAN,
                 all : BOOLEAN, wait : {"none", "finite", "forever"}]
      BY EventGroupsAssumption DEF EventGroupsAssumption
    <2> QED BY <2>1 DEF CallRecords
  <1>5. \A m \in BitMasks : m \subseteq Bits /\ m \cap Rendezvous = {}
    BY EventGroupsAssumption DEF EventGroupsAssumption
  <1> QED BY <1>1, <1>2, <1>3, <1>4, <1>5 DEF SyncCalls

LEMMA WhoIsReleased ==
    ASSUME GroupInv, NEW bits \in SUBSET Bits
    PROVE  /\ Waiting \subseteq Tasks
           /\ Suffice(bits) = {t \in Waiting : TestWaitCondition(bits, call[t])}
           /\ Suffice(bits) \subseteq Waiting
           /\ Rendezvous \subseteq bits => Waiting \cap Participants \subseteq Suffice(bits)
           /\ ~(Rendezvous \subseteq bits) => Suffice(bits) \cap Participants = {}
           /\ Suffice(bits) \cap Participants = {} => ClearedBy(bits) \cap Rendezvous = {}
           /\ ClearedBy(bits) \subseteq Bits
           /\ \A t \in Waiting \ Suffice(bits) :
                 ~TestWaitCondition(bits \ ClearedBy(bits), call[t])
  <1>1. Waiting \subseteq Tasks
    BY ToSetSeq DEF GroupInv, TypeOK, Waiting
  <1>2. \A t \in Waiting : /\ xItemValue[t] = ForWait(call[t])
                           /\ t \in Participants => call[t] \in SyncCalls
                           /\ t \notin Participants => call[t] \in Calls
    BY <1>1 DEF GroupInv, WaitNoted, CallsKnown, BlockedInList
  <1>3. Suffice(bits) = {t \in Waiting : TestWaitCondition(bits, call[t])}
    BY <1>2, TestForWait DEF Suffice
  <1>4. \A t \in Waiting \cap Participants : t \in Suffice(bits) <=> Rendezvous \subseteq bits
    BY <1>2, <1>3, CallTypes
  <1>5. ASSUME Suffice(bits) \cap Participants = {}
        PROVE  ClearedBy(bits) \cap Rendezvous = {}
    <2>1. \A t \in Suffice(bits) : xItemValue[t].bits \cap Rendezvous = {}
      <3> SUFFICES ASSUME NEW t \in Suffice(bits)
                   PROVE  xItemValue[t].bits \cap Rendezvous = {}
        OBVIOUS
      <3>1. t \in Waiting /\ t \notin Participants
        BY <1>3, <1>5
      <3>2. xItemValue[t].bits = call[t].bits /\ call[t] \in Calls
        BY <1>2, <3>1, TestForWait
      <3> QED BY <3>2, CallTypes
    <2> QED BY <2>1 DEF ClearedBy
  <1>6. ClearedBy(bits) \subseteq Bits
    <2>1. \A t \in Suffice(bits) : xItemValue[t].bits \subseteq Bits
      BY <1>1, <1>3 DEF GroupInv, TypeOK, ItemValues
    <2> QED BY <2>1 DEF ClearedBy
  <1>7. ASSUME NEW t \in Waiting \ Suffice(bits)
        PROVE  ~TestWaitCondition(bits \ ClearedBy(bits), call[t])
    <2>1. bits \ ClearedBy(bits) \subseteq bits
      OBVIOUS
    <2> QED BY <1>3, <1>7, <2>1, TestFewerBits
  <1>8. Suffice(bits) \subseteq Waiting
    BY DEF Suffice
  <1> QED BY <1>1, <1>3, <1>4, <1>5, <1>6, <1>7, <1>8

-----------------------------------------------------------------------------
(***************************************************************************)
(* GroupInv is inductive                                                   *)
(***************************************************************************)

LEMMA GroupInit == Init => GroupInv
  <1> SUFFICES ASSUME Init PROVE GroupInv
    OBVIOUS
  <1> USE DEF Init
  <1>1. Waiting = {} /\ NoDuplicates(xTasksWaitingForBits) /\ xTasksWaitingForBits \in Seq(Tasks)
    BY ToSetSeq DEF Waiting, NoDuplicates, ToSet
  <1>2. \A t \in Tasks : InitialPriority[t] \in Int
    <2>1. Priorities \subseteq Int
      BY EventGroupsAssumption DEF EventGroupsAssumption, MaxPriorities
    <2> QED BY <2>1, EventGroupsAssumption DEF EventGroupsAssumption
  <1>3. InitialPriority \in [Tasks -> Int]
    BY <1>2, EventGroupsAssumption DEF EventGroupsAssumption
  <1>4. xItemValue \in [Tasks -> ItemValues] /\ uxReturn \in [Tasks -> ItemValues]
    BY <1>2, PriorityType
  <1>5. TypeOK
    BY <1>1, <1>3, <1>4, CallTypes DEF TypeOK
  <1>6. BlockedInList /\ WaitNoted /\ CallsKnown /\ MeetingOpen /\ NoneSatisfied /\ Barrier
    BY <1>1 DEF BlockedInList, WaitNoted, CallsKnown, MeetingOpen, Rendezvous, NoneSatisfied,
                Barrier
  <1> QED BY <1>5, <1>6 DEF GroupInv

\* The invariant says no more of what SetBits does than this.
LEMMA SetBitsEffect ==
    ASSUME GroupInv, NEW mask \in BitMasks, SetBits(mask)
    PROVE  LET bits == uxEventBits \cup mask
               R == Suffice(bits)
           IN  /\ uxEventBits' = bits \ ClearedBy(bits)
               /\ xTasksWaitingForBits' \in Seq(Tasks) /\ NoDuplicates(xTasksWaitingForBits')
               /\ Waiting' = Waiting \ R
               /\ xItemValue' = [t \in Tasks |-> IF t \in R THEN ForRelease(bits)
                                                           ELSE xItemValue[t]]
               /\ pc' = [t \in Tasks |-> IF t \in R THEN "woken" ELSE pc[t]]
  <1> DEFINE bits == uxEventBits \cup mask
  <1>1. bits \in SUBSET Bits
    BY CallTypes DEF GroupInv, TypeOK
  <1> HIDE DEF bits
  <1>2. TypeOK /\ NoDuplicates(xTasksWaitingForBits)
    BY DEF GroupInv, BlockedInList
  <1>3. /\ Walk(bits).list \in Seq(Tasks)
        /\ NoDuplicates(Walk(bits).list)
        /\ ToSet(Walk(bits).list) = Waiting \ Suffice(bits)
        /\ Walk(bits).item = [t \in Tasks |-> IF t \in Suffice(bits) THEN ForRelease(bits)
                                                                ELSE xItemValue[t]]
        /\ Walk(bits).clear = ClearedBy(bits)
        /\ Released(Walk(bits)) = Suffice(bits)
    BY <1>1, <1>2, WalkEffect
  <1>4. /\ uxEventBits' = bits \ Walk(bits).clear
        /\ xTasksWaitingForBits' = Walk(bits).list
        /\ xItemValue' = Walk(bits).item
        /\ pc' = [t \in Tasks |-> IF t \in Released(Walk(bits)) THEN "woken" ELSE pc[t]]
    BY DEF SetBits, bits
  <1>5. Waiting' = ToSet(xTasksWaitingForBits')
    BY DEF Waiting
  <1> QED BY <1>3, <1>4, <1>5 DEF bits

LEMMA GroupSetBits ==
    ASSUME GroupInv, NEW mask \in BitMasks, SetBits(mask)
    PROVE  GroupInv'
  <1> DEFINE bits == uxEventBits \cup mask
             R == Suffice(bits)
             C == ClearedBy(bits)
  <1>1. bits \in SUBSET Bits /\ mask \cap Rendezvous = {}
    BY CallTypes DEF GroupInv, TypeOK
  <1>2. /\ uxEventBits' = bits \ C
        /\ xTasksWaitingForBits' \in Seq(Tasks) /\ NoDuplicates(xTasksWaitingForBits')
        /\ Waiting' = Waiting \ R
        /\ xItemValue' = [t \in Tasks |-> IF t \in R THEN ForRelease(bits) ELSE xItemValue[t]]
        /\ pc' = [t \in Tasks |-> IF t \in R THEN "woken" ELSE pc[t]]
    BY SetBitsEffect
  <1>3. UNCHANGED <<exists, uxPriority, call, uxReturn, uxPriorityRead, gaveUp>>
    BY DEF SetBits, reset
  <1>4. /\ Waiting \subseteq Tasks /\ R \subseteq Waiting /\ C \subseteq Bits
        /\ ~(Rendezvous \subseteq bits) => R \cap Participants = {}
        /\ R \cap Participants = {} => C \cap Rendezvous = {}
        /\ \A t \in Waiting \ R : ~TestWaitCondition(bits \ C, call[t])
    <2> HIDE DEF bits
    <2> QED BY <1>1, WhoIsReleased
  <1>5. ~(Rendezvous \subseteq bits) \/ Participants = {}
    <2>1. Rendezvous \subseteq bits => Rendezvous \subseteq uxEventBits
      BY <1>1
    <2> QED BY <2>1 DEF GroupInv, MeetingOpen
  <1>6. ForRelease(bits) \in ItemValues /\ ForRelease(bits).inUse /\ ForRelease(bits).unblocked
    <2> HIDE DEF bits
    <2> QED BY <1>1, ReleaseType DEF ForRelease
  <1> HIDE DEF R, C
  <1>7. TypeOK'
    BY <1>1, <1>2, <1>3, <1>6 DEF GroupInv, TypeOK
  <1> HIDE DEF bits
  <1>8. BlockedInList' /\ WaitNoted' /\ CallsKnown' /\ MeetingOpen' /\ NoneSatisfied'
    <2>1. BlockedInList'
      BY <1>2, <1>4 DEF GroupInv, TypeOK, BlockedInList
    <2>2. WaitNoted'
      BY <1>2, <1>3, <1>4 DEF GroupInv, TypeOK, WaitNoted
    <2>3. CallsKnown'
      BY <1>2, <1>3, <1>4 DEF GroupInv, TypeOK, CallsKnown, BlockedInList
    <2>4. MeetingOpen'
      BY <1>2, <1>5 DEF MeetingOpen
    <2>5. NoneSatisfied'
      BY <1>2, <1>3, <1>4 DEF NoneSatisfied
    <2> QED BY <2>1, <2>2, <2>3, <2>4, <2>5
  <1>9. Barrier'
    <2>1. \A t \in Participants : SyncBit[t] \in Rendezvous
      BY DEF Rendezvous
    <2>2. \A t \in Participants : SyncBit[t] \in bits <=> SyncBit[t] \in uxEventBits
      BY <1>1, <2>1 DEF bits
    <2> QED BY <1>2, <1>3, <1>4, <1>5, <2>1, <2>2 DEF GroupInv, Barrier
  <1> QED BY <1>7, <1>8, <1>9 DEF GroupInv

LEMMA GroupClearBits ==
    ASSUME GroupInv, NEW mask \in BitMasks, ClearBits(mask)
    PROVE  GroupInv'
  <1>1. mask \cap Rendezvous = {} /\ uxEventBits' = uxEventBits \ mask
    BY CallTypes DEF ClearBits
  <1>2. UNCHANGED <<exists, xTasksWaitingForBits, xItemValue, uxPriority, pc, call,
                    uxReturn, uxPriorityRead, gaveUp, Waiting>>
    BY DEF ClearBits, reset, Waiting
  <1>3. TypeOK'
    BY <1>1, <1>2 DEF GroupInv, TypeOK
  <1>4. BlockedInList' /\ WaitNoted' /\ CallsKnown' /\ MeetingOpen'
    BY <1>1, <1>2 DEF GroupInv, BlockedInList, WaitNoted, CallsKnown, MeetingOpen
  <1>5. NoneSatisfied'
    <2>1. uxEventBits' \subseteq uxEventBits
      BY <1>1
    <2> QED BY <1>2, <2>1, TestFewerBits DEF GroupInv, NoneSatisfied
  <1>6. Barrier'
    <2>1. \A t \in Participants : SyncBit[t] \notin mask
      BY <1>1 DEF Rendezvous
    <2> QED BY <1>1, <1>2, <2>1 DEF GroupInv, Barrier
  <1> QED BY <1>3, <1>4, <1>5, <1>6 DEF GroupInv

\* A call that returns at once may clear bits, but none of the rendezvous.
LEMMA GroupWaitAtOnce ==
    ASSUME GroupInv, NEW mask \in SUBSET Bits, mask \cap Rendezvous = {},
           uxEventBits' = uxEventBits \/ uxEventBits' = uxEventBits \ mask,
           UNCHANGED <<exists, xTasksWaitingForBits, xItemValue, uxPriority, pc, call,
                       uxReturn, uxPriorityRead, gaveUp>>
    PROVE  GroupInv'
  <1>1. UNCHANGED Waiting
    BY DEF Waiting
  <1>2. TypeOK'
    BY DEF GroupInv, TypeOK
  <1>3. BlockedInList' /\ WaitNoted' /\ CallsKnown' /\ MeetingOpen'
    BY <1>1 DEF GroupInv, BlockedInList, WaitNoted, CallsKnown, MeetingOpen
  <1>4. NoneSatisfied'
    <2>1. uxEventBits' \subseteq uxEventBits
      OBVIOUS
    <2> QED BY <1>1, <2>1, TestFewerBits DEF GroupInv, NoneSatisfied
  <1>5. Barrier'
    <2>1. \A t \in Participants : SyncBit[t] \notin mask
      BY DEF Rendezvous
    <2> QED BY <1>1, <2>1 DEF GroupInv, Barrier
  <1> QED BY <1>2, <1>3, <1>4, <1>5 DEF GroupInv

LEMMA GroupWaitBits ==
    ASSUME GroupInv, NEW t \in Tasks \ Participants, NEW c \in Calls, WaitBits(t, c)
    PROVE  GroupInv'
  <1>1. /\ pc[t] = "out" /\ exists
        /\ UNCHANGED <<exists, uxPriority, uxReturn, uxPriorityRead, gaveUp>>
    BY DEF WaitBits, reset
  <1>2. c \in CallRecords /\ c.bits \cap Rendezvous = {} /\ c.bits \in SUBSET Bits
    BY CallTypes DEF CallRecords
  <1>3. CASE UNCHANGED <<xTasksWaitingForBits, xItemValue, pc, call>> /\
             (uxEventBits' = uxEventBits \/ uxEventBits' = uxEventBits \ c.bits)
    BY <1>1, <1>2, <1>3, GroupWaitAtOnce
  <1>4. CASE /\ ~TestWaitCondition(uxEventBits, c)
             /\ xItemValue' = [xItemValue EXCEPT ![t] = ForWait(c)]
             /\ xTasksWaitingForBits' = Append(xTasksWaitingForBits, t)
             /\ pc' = [pc EXCEPT ![t] = "blocked"]
             /\ call' = [call EXCEPT ![t] = c]
             /\ UNCHANGED uxEventBits
    <2>1. t \notin Waiting /\ Waiting \subseteq Tasks
      BY <1>1 DEF GroupInv, BlockedInList
    <2>2. /\ xTasksWaitingForBits' \in Seq(Tasks) /\ NoDuplicates(xTasksWaitingForBits')
          /\ Waiting' = Waiting \cup {t}
      BY <1>4, <2>1, ListAppendSet DEF GroupInv, TypeOK, BlockedInList, Waiting
    <2>3. TypeOK'
      BY <1>1, <1>2, <1>4, <2>2, WaitType DEF GroupInv, TypeOK
    <2>4. BlockedInList'
      BY <1>4, <2>2 DEF GroupInv, TypeOK, BlockedInList
    <2>5. WaitNoted'
      BY <1>4, <2>1, <2>2 DEF GroupInv, TypeOK, WaitNoted
    <2>6. CallsKnown'
      BY <1>4 DEF GroupInv, TypeOK, CallsKnown
    <2>7. MeetingOpen'
      BY <1>4 DEF GroupInv, MeetingOpen
    <2>8. NoneSatisfied'
      BY <1>4, <2>1, <2>2 DEF GroupInv, TypeOK, NoneSatisfied
    <2>9. Barrier'
      BY <1>1, <1>4, <2>2 DEF GroupInv, Barrier
    <2> QED BY <2>3, <2>4, <2>5, <2>6, <2>7, <2>8, <2>9 DEF GroupInv
  <1> QED BY <1>3, <1>4 DEF WaitBits

\* What xEventGroupSync does if the task is the last to come, and if it is not and
\* waits or returns.
LEMMA SyncEffect ==
    ASSUME GroupInv, NEW t \in Participants, NEW wait \in SyncWaits, Sync(t, wait)
    PROVE  LET bits == uxEventBits \cup {SyncBit[t]}
               R == Suffice(bits)
               left == bits \ ClearedBy(bits)
               item == [u \in Tasks |-> IF u \in R THEN ForRelease(bits) ELSE xItemValue[u]]
               pcs  == [u \in Tasks |-> IF u \in R THEN "woken" ELSE pc[u]]
           IN  /\ xTasksWaitingForBits' \in Seq(Tasks) /\ NoDuplicates(xTasksWaitingForBits')
               /\ \/ /\ Rendezvous \subseteq bits
                     /\ uxEventBits' = left \ Rendezvous
                     /\ Waiting' = Waiting \ R
                     /\ xItemValue' = item /\ pc' = pcs /\ call' = call
                     /\ gaveUp' = {}
                  \/ /\ ~(Rendezvous \subseteq bits)
                     /\ uxEventBits' = left
                     /\ Waiting' = (Waiting \ R) \cup {t}
                     /\ xItemValue' = [item EXCEPT ![t] = ForWait(SyncCall(wait))]
                     /\ pc' = [pcs EXCEPT ![t] = "blocked"]
                     /\ call' = [call EXCEPT ![t] = SyncCall(wait)]
                     /\ gaveUp' = gaveUp \ {t}
                  \/ /\ ~(Rendezvous \subseteq bits)
                     /\ uxEventBits' = left
                     /\ Waiting' = Waiting \ R
                     /\ xItemValue' = item /\ pc' = pcs /\ call' = call
                     /\ gaveUp' = gaveUp \cup {t}
  <1> DEFINE bits == uxEventBits \cup {SyncBit[t]}
  <1>1. bits \in SUBSET Bits /\ t \in Tasks
    BY EventGroupsAssumption DEF EventGroupsAssumption, GroupInv, TypeOK
  <1>2. pc[t] = "out" /\ t \notin Waiting /\ TypeOK /\ NoDuplicates(xTasksWaitingForBits)
    BY <1>1 DEF Sync, GroupInv, BlockedInList
  <1> DEFINE walk == Walk(bits)
             woken == [u \in Tasks |-> IF u \in Released(walk) THEN "woken" ELSE pc[u]]
  <1>3. /\ (AllArrived(t) <=> Rendezvous \subseteq bits)
        /\ \/ /\ AllArrived(t)
              /\ uxEventBits' = (bits \ walk.clear) \ Rendezvous
              /\ xTasksWaitingForBits' = walk.list
              /\ xItemValue' = walk.item /\ pc' = woken
              /\ gaveUp' = {} /\ UNCHANGED call
           \/ /\ ~AllArrived(t)
              /\ uxEventBits' = bits \ walk.clear
              /\ xTasksWaitingForBits' = Append(walk.list, t)
              /\ xItemValue' = [walk.item EXCEPT ![t] = ForWait(SyncCall(wait))]
              /\ pc' = [woken EXCEPT ![t] = "blocked"]
              /\ call' = [call EXCEPT ![t] = SyncCall(wait)]
              /\ gaveUp' = gaveUp \ {t}
           \/ /\ ~AllArrived(t)
              /\ uxEventBits' = bits \ walk.clear
              /\ xTasksWaitingForBits' = walk.list
              /\ xItemValue' = walk.item /\ pc' = woken
              /\ gaveUp' = gaveUp \cup {t} /\ UNCHANGED call
    BY DEF Sync, AllArrived
  <1> HIDE DEF bits
  <1>4. /\ walk.list \in Seq(Tasks)
        /\ NoDuplicates(walk.list)
        /\ ToSet(walk.list) = Waiting \ Suffice(bits)
        /\ walk.item = [u \in Tasks |-> IF u \in Suffice(bits) THEN ForRelease(bits)
                                                           ELSE xItemValue[u]]
        /\ walk.clear = ClearedBy(bits)
        /\ Released(walk) = Suffice(bits)
    BY <1>1, <1>2, WalkEffect
  <1> HIDE DEF walk
  <1>5. /\ Append(walk.list, t) \in Seq(Tasks)
        /\ NoDuplicates(Append(walk.list, t))
        /\ ToSet(Append(walk.list, t)) = (Waiting \ Suffice(bits)) \cup {t}
    BY <1>1, <1>2, <1>4, ListAppendSet
  <1>6. Waiting' = ToSet(xTasksWaitingForBits')
    BY DEF Waiting
  <1>7. woken = [u \in Tasks |-> IF u \in Suffice(bits) THEN "woken" ELSE pc[u]]
    BY <1>4
  <1> HIDE DEF woken
  <1> QED BY <1>3, <1>4, <1>5, <1>6, <1>7 DEF bits

LEMMA GroupSync ==
    ASSUME GroupInv, NEW t \in Participants, NEW wait \in SyncWaits, Sync(t, wait)
    PROVE  GroupInv'
  <1> DEFINE bits == uxEventBits \cup {SyncBit[t]}
             R == Suffice(bits)
             C == ClearedBy(bits)
             item == [u \in Tasks |-> IF u \in R THEN ForRelease(bits) ELSE xItemValue[u]]
             pcs  == [u \in Tasks |-> IF u \in R THEN "woken" ELSE pc[u]]
             Ends == /\ Rendezvous \subseteq bits
                     /\ uxEventBits' = (bits \ C) \ Rendezvous
                     /\ Waiting' = Waiting \ R
                     /\ xItemValue' = item /\ pc' = pcs /\ call' = call
                     /\ gaveUp' = {}
             Waits == /\ ~(Rendezvous \subseteq bits)
                      /\ uxEventBits' = bits \ C
                      /\ Waiting' = (Waiting \ R) \cup {t}
                      /\ xItemValue' = [item EXCEPT ![t] = ForWait(SyncCall(wait))]
                      /\ pc' = [pcs EXCEPT ![t] = "blocked"]
                      /\ call' = [call EXCEPT ![t] = SyncCall(wait)]
                      /\ gaveUp' = gaveUp \ {t}
             Leaves == /\ ~(Rendezvous \subseteq bits)
                       /\ uxEventBits' = bits \ C
                       /\ Waiting' = Waiting \ R
                       /\ xItemValue' = item /\ pc' = pcs /\ call' = call
                       /\ gaveUp' = gaveUp \cup {t}
  <1>1. /\ bits \in SUBSET Bits /\ t \in Tasks /\ Participants \subseteq Tasks
        /\ \A u \in Participants : SyncBit[u] \in Rendezvous /\ SyncBit[u] \in Bits
        /\ \A u \in Participants : u # t => SyncBit[u] # SyncBit[t]
    BY EventGroupsAssumption DEF EventGroupsAssumption, GroupInv, TypeOK, Rendezvous
  <1>2. /\ xTasksWaitingForBits' \in Seq(Tasks) /\ NoDuplicates(xTasksWaitingForBits')
        /\ Ends \/ Waits \/ Leaves
    BY SyncEffect
  <1>3. /\ UNCHANGED <<exists, uxPriority, uxReturn, uxPriorityRead>>
        /\ pc[t] = "out" /\ exists
    BY DEF Sync, reset
  <1>4. /\ \A u \in Participants : u # t => (SyncBit[u] \in bits <=> u \in Waiting \cup gaveUp)
        /\ SyncBit[t] \in bits
    BY <1>1, <1>3 DEF GroupInv, Barrier
  <1> HIDE DEF bits
  <1>5. /\ Waiting \subseteq Tasks /\ R \subseteq Waiting /\ C \subseteq Bits
        /\ Rendezvous \subseteq bits => Waiting \cap Participants \subseteq R
        /\ ~(Rendezvous \subseteq bits) => R \cap Participants = {}
        /\ R \cap Participants = {} => C \cap Rendezvous = {}
        /\ \A u \in Waiting \ R : ~TestWaitCondition(bits \ C, call[u])
    BY <1>1, WhoIsReleased
  <1>6. ForRelease(bits) \in ItemValues /\ ForRelease(bits).inUse /\ ForRelease(bits).unblocked
    BY <1>1, ReleaseType DEF ForRelease
  <1>7. /\ SyncCall(wait) \in SyncCalls /\ SyncCall(wait) \in CallRecords
        /\ ForWait(SyncCall(wait)) \in ItemValues
    BY CallTypes, WaitType DEF SyncCalls
  <1>8. t \notin Waiting
    BY <1>1, <1>3 DEF GroupInv, BlockedInList
  <1> HIDE DEF R, C
  <1>9. item \in [Tasks -> ItemValues] /\ pcs \in [Tasks -> {"out", "blocked", "woken", "reset", "late"}]
    BY <1>6 DEF GroupInv, TypeOK
  <1>10. \A u \in Tasks : /\ item[u] = IF u \in R THEN ForRelease(bits) ELSE xItemValue[u]
                          /\ pcs[u] = IF u \in R THEN "woken" ELSE pc[u]
    OBVIOUS
  <1> HIDE DEF item, pcs
  <1>11. \A u \in Participants : SyncBit[u] \in bits \ C <=>
             SyncBit[u] \in bits /\ (Rendezvous \subseteq bits => SyncBit[u] \notin C)
    BY <1>1, <1>5
  <1>12. UNCHANGED <<exists, uxPriority, uxReturn, uxPriorityRead>> /\ Rendezvous # {}
    BY <1>1, <1>3
  <1>13. CASE Ends \/ Leaves
    <2>1. /\ uxEventBits' \subseteq bits \ C
          /\ Waiting' = Waiting \ R
          /\ xItemValue' = item /\ pc' = pcs /\ call' = call
          /\ gaveUp' \subseteq Participants
          /\ ~(Rendezvous \subseteq uxEventBits')
      BY <1>12, <1>13 DEF GroupInv, TypeOK
    <2>2. TypeOK'
      <3>1. uxEventBits' \in SUBSET Bits
        BY <1>1, <2>1
      <3> QED BY <1>2, <1>12, <1>9, <2>1, <3>1 DEF GroupInv, TypeOK
    <2>3. BlockedInList'
      BY <1>2, <1>5, <1>10, <2>1 DEF GroupInv, BlockedInList
    <2>4. WaitNoted'
      BY <1>5, <1>10, <2>1 DEF GroupInv, WaitNoted
    <2>5. CallsKnown'
      BY <1>5, <1>10, <2>1 DEF GroupInv, CallsKnown, BlockedInList
    <2>6. MeetingOpen'
      BY <2>1 DEF MeetingOpen
    <2>7. NoneSatisfied'
      BY <1>5, <2>1, TestFewerBits DEF NoneSatisfied
    <2>8. Barrier'
      <3>1. CASE Ends
        BY <1>1, <1>5, <1>8, <3>1 DEF Barrier
      <3>2. CASE Leaves
        BY <1>1, <1>4, <1>5, <1>11, <3>2 DEF Barrier
      <3> QED BY <1>13, <3>1, <3>2
    <2> QED BY <2>2, <2>3, <2>4, <2>5, <2>6, <2>7, <2>8 DEF GroupInv
  <1>14. CASE Waits
    <2> HIDE DEF Ends, Leaves
    <2>1. TypeOK'
      BY <1>1, <1>2, <1>5, <1>7, <1>9, <1>12, <1>14 DEF GroupInv, TypeOK
    <2>2. BlockedInList'
      BY <1>1, <1>2, <1>5, <1>9, <1>10, <1>14 DEF GroupInv, BlockedInList
    <2>3. WaitNoted'
      BY <1>1, <1>5, <1>9, <1>10, <1>14 DEF GroupInv, TypeOK, WaitNoted
    <2>4. CallsKnown'
      BY <1>1, <1>5, <1>7, <1>9, <1>10, <1>14 DEF GroupInv, TypeOK, CallsKnown, BlockedInList
    <2>5. MeetingOpen'
      BY <1>14 DEF MeetingOpen
    <2>6. NoneSatisfied'
      <3>1. call'[t] = SyncCall(wait) /\ \A u \in Tasks : u # t => call'[u] = call[u]
        BY <1>1, <1>14 DEF GroupInv, TypeOK
      <3>2. ~TestWaitCondition(bits \ C, SyncCall(wait))
        BY <1>7, <1>14, CallTypes
      <3> QED BY <1>5, <1>8, <1>14, <3>1, <3>2 DEF NoneSatisfied
    <2>7. Barrier'
      <3>1. R \cap Participants = {}
        BY <1>5, <1>14
      <3> QED BY <1>1, <1>4, <1>8, <1>11, <1>14, <3>1 DEF Barrier
    <2> QED BY <2>1, <2>2, <2>3, <2>4, <2>5, <2>6, <2>7 DEF GroupInv
  <1> QED BY <1>2, <1>13, <1>14

LEMMA GroupTimeOut ==
    ASSUME GroupInv, NEW t \in Tasks, TimeOut(t)
    PROVE  GroupInv'
  <1>1. /\ pc[t] = "blocked" /\ t \in Waiting /\ Waiting \subseteq Tasks
        /\ xTasksWaitingForBits' = ListRemove(xTasksWaitingForBits, t)
        /\ pc' = [pc EXCEPT ![t] = "woken"]
        /\ UNCHANGED <<exists, uxEventBits, xItemValue, uxPriority, call,
                       uxReturn, uxPriorityRead>>
    BY DEF TimeOut, reset, GroupInv, BlockedInList
  <1>2. gaveUp' = gaveUp \cup ({t} \cap Participants)
    BY DEF TimeOut
  <1>3. /\ xTasksWaitingForBits' \in Seq(Tasks) /\ NoDuplicates(xTasksWaitingForBits')
        /\ Waiting' = Waiting \ {t}
    BY <1>1, ListRemoveSet DEF GroupInv, TypeOK, BlockedInList, Waiting
  <1>4. TypeOK'
    BY <1>1, <1>2, <1>3 DEF GroupInv, TypeOK
  <1>5. BlockedInList' /\ WaitNoted' /\ NoneSatisfied'
    BY <1>1, <1>3 DEF GroupInv, TypeOK, BlockedInList, WaitNoted, NoneSatisfied
  <1>6. CallsKnown'
    BY <1>1 DEF GroupInv, TypeOK, CallsKnown
  <1>7. MeetingOpen'
    BY <1>1 DEF GroupInv, MeetingOpen
  <1>8. Barrier'
    BY <1>1, <1>2, <1>3 DEF GroupInv, Barrier
  <1> QED BY <1>4, <1>5, <1>6, <1>7, <1>8 DEF GroupInv

\* Steps that leave the group and the blocked tasks alone.
LEMMA GroupApart ==
    ASSUME GroupInv, TypeOK',
           UNCHANGED <<exists, uxEventBits, xTasksWaitingForBits, gaveUp>>,
           \A u \in Tasks : (pc[u] = "blocked" <=> pc'[u] = "blocked") /\
                (u \in Waiting => xItemValue'[u] = xItemValue[u] /\ call'[u] = call[u])
    PROVE  BlockedInList' /\ WaitNoted' /\ MeetingOpen' /\ NoneSatisfied' /\ Barrier'
  <1>1. UNCHANGED Waiting
    BY DEF Waiting
  <1>2. Waiting \subseteq Tasks
    BY DEF GroupInv, BlockedInList
  <1> QED BY <1>1, <1>2
          DEF GroupInv, BlockedInList, WaitNoted, MeetingOpen, NoneSatisfied, Barrier

LEMMA GroupReadItemValue ==
    ASSUME GroupInv, NEW t \in Tasks, ReadItemValue(t)
    PROVE  GroupInv'
  <1>1. /\ pc[t] = "woken"
        /\ uxReturn' = [uxReturn EXCEPT ![t] = xItemValue[t]]
        /\ uxPriorityRead' = [uxPriorityRead EXCEPT ![t] = uxPriority[t]]
        /\ pc' = [pc EXCEPT ![t] = "reset"]
        /\ UNCHANGED <<exists, uxEventBits, xTasksWaitingForBits, xItemValue, uxPriority, call,
                       gaveUp>>
    BY DEF ReadItemValue, group
  <1>2. TypeOK'
    BY <1>1 DEF GroupInv, TypeOK
  <1>3. BlockedInList' /\ WaitNoted' /\ MeetingOpen' /\ NoneSatisfied' /\ Barrier'
    BY <1>1, <1>2, GroupApart DEF GroupInv, TypeOK
  <1>4. CallsKnown'
    BY <1>1 DEF GroupInv, TypeOK, CallsKnown
  <1> QED BY <1>2, <1>3, <1>4 DEF GroupInv

LEMMA GroupResetItemValue ==
    ASSUME GroupInv, NEW t \in Tasks, ResetItemValue(t)
    PROVE  GroupInv'
  <1>1. /\ pc[t] = "reset"
        /\ xItemValue' = [xItemValue EXCEPT ![t] = ForPriority(uxPriorityRead[t])]
        /\ \/ /\ pc' = [pc EXCEPT ![t] = "out"]
              /\ call' = [call EXCEPT ![t] = NoCall]
           \/ /\ ~uxReturn[t].unblocked
              /\ pc' = [pc EXCEPT ![t] = "late"]
              /\ UNCHANGED call
        /\ uxReturn' = [uxReturn EXCEPT ![t] = ForPriority(0)]
        /\ uxPriorityRead' = [uxPriorityRead EXCEPT ![t] = 0]
        /\ UNCHANGED <<exists, uxEventBits, xTasksWaitingForBits, uxPriority, gaveUp>>
    BY DEF ResetItemValue, group
  <1>2. TypeOK'
    <2>1. ForPriority(0) \in ItemValues /\ ForPriority(uxPriorityRead[t]) \in ItemValues
      BY PriorityType DEF GroupInv, TypeOK
    <2>2. pc' \in [Tasks -> {"out", "blocked", "woken", "reset", "late"}]
      BY <1>1 DEF GroupInv, TypeOK
    <2>3. call' \in [Tasks -> CallRecords]
      <3>1. NoCall \in CallRecords /\ call \in [Tasks -> CallRecords]
        BY CallTypes DEF GroupInv, TypeOK
      <3>2. call' = [call EXCEPT ![t] = NoCall] \/ call' = call
        BY <1>1
      <3> QED BY <3>1, <3>2
    <2>4. xItemValue' \in [Tasks -> ItemValues] /\ uxReturn' \in [Tasks -> ItemValues]
      BY <1>1, <2>1 DEF GroupInv, TypeOK
    <2>5. uxPriorityRead' \in [Tasks -> Int]
      BY <1>1 DEF GroupInv, TypeOK
    <2> QED BY <1>1, <2>2, <2>3, <2>4, <2>5 DEF GroupInv, TypeOK
  <1>3. t \notin Waiting
    BY <1>1 DEF GroupInv, BlockedInList
  <1>4. BlockedInList' /\ WaitNoted' /\ MeetingOpen' /\ NoneSatisfied' /\ Barrier'
    BY <1>1, <1>2, <1>3, GroupApart DEF GroupInv, TypeOK
  <1>5. CallsKnown'
    BY <1>1 DEF GroupInv, TypeOK, CallsKnown
  <1> QED BY <1>2, <1>4, <1>5 DEF GroupInv

LEMMA GroupReturnLate ==
    ASSUME GroupInv, NEW t \in Tasks, ReturnLate(t)
    PROVE  GroupInv'
  <1>1. /\ pc[t] = "late"
        /\ uxEventBits' = uxEventBits \/ uxEventBits' = uxEventBits \ call[t].bits
        /\ pc' = [pc EXCEPT ![t] = "out"]
        /\ call' = [call EXCEPT ![t] = NoCall]
        /\ UNCHANGED <<exists, xTasksWaitingForBits, xItemValue, uxPriority,
                       uxReturn, uxPriorityRead, gaveUp>>
    BY DEF ReturnLate, reset
  <1>2. uxEventBits' = uxEventBits \/ call[t].bits \cap Rendezvous = {}
    <2>1. CASE t \in Participants
      <3>1. call[t] \in SyncCalls /\ ~(Rendezvous \subseteq uxEventBits)
        BY <1>1, <2>1 DEF GroupInv, CallsKnown, MeetingOpen
      <3>2. ~TestWaitCondition(uxEventBits, call[t])
        BY <3>1, CallTypes
      <3> QED BY <3>2 DEF ReturnLate
    <2>2. CASE t \notin Participants
      BY <1>1, <2>2, CallTypes DEF GroupInv, CallsKnown
    <2> QED BY <2>1, <2>2
  <1>3. t \notin Waiting /\ UNCHANGED Waiting /\ Waiting \subseteq Tasks
    BY <1>1 DEF GroupInv, BlockedInList, Waiting
  <1>4. TypeOK'
    BY <1>1, CallTypes DEF GroupInv, TypeOK
  <1>5. BlockedInList' /\ WaitNoted'
    BY <1>1, <1>3 DEF GroupInv, TypeOK, BlockedInList, WaitNoted
  <1>6. CallsKnown' /\ MeetingOpen'
    BY <1>1 DEF GroupInv, TypeOK, CallsKnown, MeetingOpen
  <1>7. NoneSatisfied'
    <2>1. uxEventBits' \subseteq uxEventBits
      BY <1>1
    <2>2. \A u \in Waiting : call'[u] = call[u]
      BY <1>1, <1>3 DEF GroupInv, TypeOK
    <2> QED BY <1>3, <2>1, <2>2, TestFewerBits DEF GroupInv, NoneSatisfied
  <1>8. Barrier'
    <2>1. uxEventBits' = uxEventBits \/ \A u \in Participants : SyncBit[u] \notin call[t].bits
      BY <1>2 DEF Rendezvous
    <2> QED BY <1>1, <1>3, <2>1 DEF GroupInv, Barrier
  <1> QED BY <1>4, <1>5, <1>6, <1>7, <1>8 DEF GroupInv

LEMMA GroupDelete ==
    ASSUME GroupInv, Delete
    PROVE  GroupInv'
  <1>1. /\ xItemValue' = [t \in Tasks |-> IF pc[t] = "blocked" THEN ForRelease({})
                                                              ELSE xItemValue[t]]
        /\ xTasksWaitingForBits' = <<>>
        /\ pc' = [t \in Tasks |-> IF pc[t] = "blocked" THEN "woken" ELSE pc[t]]
        /\ exists' = FALSE
        /\ UNCHANGED <<uxEventBits, uxPriority, call, uxReturn, uxPriorityRead, gaveUp>>
    BY DEF Delete, reset
  <1>2. /\ Waiting' = {} /\ NoDuplicates(xTasksWaitingForBits')
        /\ xTasksWaitingForBits' \in Seq(Tasks)
    BY <1>1, ToSetSeq DEF Waiting, NoDuplicates, ToSet
  <1>3. ForRelease({}) \in ItemValues
    BY ReleaseType
  <1>4. TypeOK'
    BY <1>1, <1>2, <1>3 DEF GroupInv, TypeOK
  <1>5. BlockedInList' /\ WaitNoted' /\ CallsKnown'
    BY <1>1, <1>2 DEF GroupInv, TypeOK, BlockedInList, WaitNoted, CallsKnown
  <1>6. MeetingOpen' /\ NoneSatisfied' /\ Barrier'
    BY <1>1, <1>2 DEF GroupInv, MeetingOpen, NoneSatisfied, Barrier
  <1> QED BY <1>4, <1>5, <1>6 DEF GroupInv

\* vTaskPrioritySet changes no item value that is in use.
LEMMA GroupPrioritySet ==
    ASSUME GroupInv, NEW t \in Reprioritised, NEW p \in Priorities, PrioritySet(t, p)
    PROVE  GroupInv'
  <1>1. /\ uxPriority' = [uxPriority EXCEPT ![t] = p]
        /\ xItemValue' = [xItemValue EXCEPT ![t] = ItemValueAfterPrioritySet(t, p)]
        /\ UNCHANGED <<exists, uxEventBits, xTasksWaitingForBits, pc, call,
                       uxReturn, uxPriorityRead, gaveUp>>
    BY DEF PrioritySet, group, reset
  <1>2. t \in Tasks /\ p \in Int
    BY EventGroupsAssumption DEF EventGroupsAssumption, MaxPriorities
  <1>3. ItemValueAfterPrioritySet(t, p) \in ItemValues
    BY <1>2, PriorityType DEF ItemValueAfterPrioritySet, GroupInv, TypeOK
  <1>4. TypeOK'
    BY <1>1, <1>2, <1>3 DEF GroupInv, TypeOK
  <1>5. \A u \in Tasks : xItemValue[u].inUse => xItemValue'[u] = xItemValue[u]
    BY <1>1 DEF ItemValueAfterPrioritySet, GroupInv, TypeOK
  <1>6. BlockedInList' /\ WaitNoted' /\ MeetingOpen' /\ NoneSatisfied' /\ Barrier'
    <2>1. \A u \in Waiting : xItemValue[u].inUse
      BY TestForWait DEF GroupInv, WaitNoted
    <2> QED BY <1>1, <1>4, <1>5, <2>1, GroupApart
  <1>7. CallsKnown'
    BY <1>1 DEF GroupInv, CallsKnown
  <1> QED BY <1>4, <1>6, <1>7 DEF GroupInv

LEMMA GroupNext == GroupInv /\ [Next]_vars => GroupInv'
  <1> SUFFICES ASSUME GroupInv, [Next]_vars PROVE GroupInv'
    OBVIOUS
  <1>1. CASE UNCHANGED vars
    <2>1. UNCHANGED <<exists, uxEventBits, xTasksWaitingForBits, xItemValue, uxPriority, pc,
                      call, uxReturn, uxPriorityRead, gaveUp, Waiting>>
      BY <1>1 DEF vars, group, reset, Waiting
    <2> QED BY <2>1 DEF GroupInv, TypeOK, BlockedInList, WaitNoted, CallsKnown, MeetingOpen,
                        NoneSatisfied, Barrier
  <1>2. ASSUME NEW mask \in BitMasks, SetBits(mask) PROVE GroupInv'
    BY <1>2, GroupSetBits
  <1>3. ASSUME NEW mask \in BitMasks, ClearBits(mask) PROVE GroupInv'
    BY <1>3, GroupClearBits
  <1>4. ASSUME NEW t \in Tasks \ Participants, NEW c \in Calls, WaitBits(t, c) PROVE GroupInv'
    BY <1>4, GroupWaitBits
  <1>5. ASSUME NEW t \in Participants, NEW wait \in SyncWaits, Sync(t, wait) PROVE GroupInv'
    BY <1>5, GroupSync
  <1>6. ASSUME NEW t \in Tasks,
               TimeOut(t) \/ ReadItemValue(t) \/ ResetItemValue(t) \/ ReturnLate(t)
        PROVE  GroupInv'
    BY <1>6, GroupTimeOut, GroupReadItemValue, GroupResetItemValue, GroupReturnLate
  <1>7. ASSUME NEW t \in Reprioritised, NEW p \in Priorities, PrioritySet(t, p) PROVE GroupInv'
    BY <1>7, GroupPrioritySet
  <1>8. CASE Delete
    BY <1>8, GroupDelete
  <1> QED BY <1>1, <1>2, <1>3, <1>4, <1>5, <1>6, <1>7, <1>8 DEF Next

\* GroupInv: the list holds the blocked tasks, the kernel and the task agree on what each
\* waits for, and none of them has it.
THEOREM GroupInvariance == Spec => []GroupInv
  <1> QED BY GroupInit, GroupNext, PTL DEF Spec

\* For every number of tasks, bits and combinations of calls: a task that is blocked in
\* xEventGroupWaitBits or xEventGroupSync is in the list and what it asked for is not there.
THEOREM NobodySleepsThroughItsBits == Spec => []NoMissedBits
  <1>1. GroupInv => NoMissedBits
    BY DEF GroupInv, NoMissedBits, BlockedInList, NoneSatisfied
  <1> QED BY <1>1, GroupInvariance, PTL

\* For every number of participants and whatever their block times: the bit of each is
\* set exactly while it waits, or after it gave up and until the next meeting.
THEOREM RendezvousIsABarrier == Spec => []Barrier
  <1>1. GroupInv => Barrier
    BY DEF GroupInv
  <1> QED BY <1>1, GroupInvariance, PTL

\* The steps that release waiters, and that they release all whom their bits suffice for.
LEMMA MatchReleasedBy ==
    ASSUME GroupInv, NEW bits \in SUBSET Bits, NEW R, R = Suffice(bits),
           Waiting \ Waiting' \subseteq R, Waiting' \cap R = {},
           \A u \in R : xItemValue'[u] = ForRelease(bits)
    PROVE  \A t \in Tasks : MatchReleased(t)
  <1>1. Suffice(bits) = {t \in Waiting : TestWaitCondition(bits, call[t])}
    BY WhoIsReleased
  <1>2. ForRelease(bits).bits = bits
    BY DEF ForRelease
  <1> SUFFICES ASSUME NEW t \in Tasks, t \in Waiting, t \notin Waiting'
               PROVE  /\ TestWaitCondition(xItemValue'[t].bits, call[t])
                      /\ \A u \in Waiting :
                            TestWaitCondition(xItemValue'[t].bits, call[u]) =>
                                /\ u \notin Waiting'
                                /\ xItemValue'[u].bits = xItemValue'[t].bits
    BY DEF MatchReleased
  <1>3. t \in R /\ xItemValue'[t].bits = bits
    BY <1>2
  <1> QED BY <1>1, <1>2, <1>3

\* Waiters are released together with all others their bits suffice for, and see these
\* bits, whatever the number of waiters and whatever the released ones clear.
THEOREM EveryMatchIsReleased == Spec => EveryMatchReleased
  <1> DEFINE A == \A t \in Tasks : MatchReleased(t)
  <1>1. GroupInv /\ [Next]_vars => [A]_vars
    <2> SUFFICES ASSUME GroupInv, Next PROVE A
      OBVIOUS
    <2>1. ASSUME NEW mask \in BitMasks, SetBits(mask) PROVE A
      <3> DEFINE bits == uxEventBits \cup mask
      <3>1. bits \in SUBSET Bits
        BY CallTypes DEF GroupInv, TypeOK
      <3>2. /\ Waiting' = Waiting \ Suffice(bits)
            /\ xItemValue' = [t \in Tasks |-> IF t \in Suffice(bits) THEN ForRelease(bits)
                                                               ELSE xItemValue[t]]
        BY <2>1, SetBitsEffect
      <3> HIDE DEF bits
      <3>3. Suffice(bits) \subseteq Waiting /\ Waiting \subseteq Tasks
        BY <3>1, WhoIsReleased
      <3>4. \A u \in Suffice(bits) : xItemValue'[u] = ForRelease(bits)
        BY <3>2, <3>3
      <3>5. Waiting \ Waiting' \subseteq Suffice(bits) /\ Waiting' \cap Suffice(bits) = {}
        BY <3>2
      <3> QED BY <3>1, <3>4, <3>5, MatchReleasedBy
    <2>2. ASSUME NEW t \in Participants, NEW wait \in SyncWaits, Sync(t, wait) PROVE A
      <3> DEFINE bits == uxEventBits \cup {SyncBit[t]}
                 item == [u \in Tasks |-> IF u \in Suffice(bits) THEN ForRelease(bits)
                                                           ELSE xItemValue[u]]
      <3>1. bits \in SUBSET Bits /\ t \in Tasks
        BY EventGroupsAssumption DEF EventGroupsAssumption, GroupInv, TypeOK
      <3>2. \/ /\ Waiting' = Waiting \ Suffice(bits)
               /\ xItemValue' = item
            \/ /\ Waiting' = (Waiting \ Suffice(bits)) \cup {t}
               /\ xItemValue' = [item EXCEPT ![t] = ForWait(SyncCall(wait))]
        BY <2>2, SyncEffect
      <3>3. t \notin Waiting
        BY <2>2, <3>1 DEF Sync, GroupInv, BlockedInList
      <3> HIDE DEF bits
      <3>4. Suffice(bits) \subseteq Waiting /\ Waiting \subseteq Tasks
        BY <3>1, WhoIsReleased
      <3>5. \A u \in Suffice(bits) : xItemValue'[u] = ForRelease(bits)
        BY <3>2, <3>3, <3>4
      <3>6. Waiting \ Waiting' \subseteq Suffice(bits) /\ Waiting' \cap Suffice(bits) = {}
        BY <3>2, <3>3, <3>4
      <3> QED BY <3>1, <3>5, <3>6, MatchReleasedBy
    <2>3. ASSUME NEW t \in Tasks, TimeOut(t) PROVE A
      <3>1. /\ pc[t] = "blocked" /\ t \in Waiting /\ UNCHANGED xItemValue
            /\ xTasksWaitingForBits' = ListRemove(xTasksWaitingForBits, t)
        BY <2>3 DEF TimeOut, GroupInv, BlockedInList
      <3>2. Waiting' = Waiting \ {t}
        BY <3>1, ListRemoveSet DEF GroupInv, TypeOK, BlockedInList, Waiting
      <3>3. ~xItemValue'[t].unblocked
        BY <3>1, TestForWait DEF GroupInv, WaitNoted
      <3> QED BY <3>2, <3>3 DEF MatchReleased
    <2>4. CASE Delete
      <3>1. \A t \in Waiting : xItemValue'[t].bits = {}
        BY <2>4 DEF Delete, GroupInv, BlockedInList, ForRelease
      <3> QED BY <3>1 DEF MatchReleased
    <2>5. ASSUME NEW t \in Tasks \ Participants, NEW c \in Calls, WaitBits(t, c) PROVE A
      <3>1. \/ UNCHANGED xTasksWaitingForBits
            \/ xTasksWaitingForBits' = Append(xTasksWaitingForBits, t)
        BY <2>5 DEF WaitBits
      <3>2. t \notin Waiting
        BY <2>5 DEF WaitBits, GroupInv, BlockedInList
      <3>3. Waiting \subseteq Waiting'
        <4>1. xTasksWaitingForBits \in Seq(Tasks) /\ NoDuplicates(xTasksWaitingForBits)
          BY DEF GroupInv, TypeOK, BlockedInList
        <4>2. ToSet(Append(xTasksWaitingForBits, t)) = Waiting \cup {t}
          BY <3>2, <4>1, ListAppendSet DEF Waiting
        <4> QED BY <3>1, <4>2 DEF Waiting
      <3> QED BY <3>3 DEF MatchReleased
    <2>6. ASSUME UNCHANGED xTasksWaitingForBits PROVE A
      <3>1. Waiting' = Waiting
        BY <2>6 DEF Waiting
      <3> QED BY <3>1 DEF MatchReleased
    <2>7. ASSUME NEW mask \in BitMasks, ClearBits(mask) PROVE UNCHANGED xTasksWaitingForBits
      BY <2>7 DEF ClearBits
    <2>8. ASSUME NEW t \in Tasks, ReadItemValue(t) \/ ResetItemValue(t) \/ ReturnLate(t)
          PROVE  UNCHANGED xTasksWaitingForBits
      BY <2>8 DEF ReadItemValue, ResetItemValue, ReturnLate, group
    <2>9. ASSUME NEW t \in Reprioritised, NEW p \in Priorities, PrioritySet(t, p)
          PROVE  UNCHANGED xTasksWaitingForBits
      BY <2>9 DEF PrioritySet, group
    <2> HIDE DEF A
    <2> QED BY <2>1, <2>2, <2>3, <2>4, <2>5, <2>6, <2>7, <2>8, <2>9 DEF Next
  <1> QED BY <1>1, GroupInvariance, PTL DEF Spec, EveryMatchReleased
=============================================================================
