------------------------- MODULE HibitReplayProofs -------------------------
(* Proofs about HibitReplay, for every fan-out, every set of values and every
   length of script. *)
EXTENDS HibitReplay, HibitNodesProofs

USE FanAssumption, ZeroAssumption

-----------------------------------------------------------------------------
(* What a sequence of calls does to a store: `stores' is what it holds before
   the first call, between any two, and after the last one. *)
Answered(store, call) == [store EXCEPT ![call[1]] = call[2]]

Course(stores, calls) ==
  \A x \in 1..Len(calls) : stores[x] = Answered(stores[x - 1], calls[x])

Carries(first, calls, last) ==
  \E stores \in [0..Len(calls) -> Store] :
    /\ stores[0] = first /\ stores[Len(calls)] = last
    /\ Course(stores, calls)

(* A call maps a store to a store. *)
LEMMA AnsweredType ==
  ASSUME NEW store \in Store, NEW call \in Call
  PROVE  Answered(store, call) \in Store
BY DEF Answered, Call, Store

(* No call leaves a store as it is. *)
LEMMA CarriesNone ==
  ASSUME NEW first \in Store
  PROVE  Carries(first, <<>>, first)
<1> DEFINE stores == [x \in 0..0 |-> first]
<1>1. stores \in [0..Len(<<>>) -> Store] /\ stores[0] = first
  OBVIOUS
<1> HIDE DEF stores
<1> QED BY <1>1 DEF Carries, Course

(* And only as it is. *)
LEMMA CarriesNothing ==
  ASSUME NEW first, NEW last, Carries(first, <<>>, last)
  PROVE  first = last
BY DEF Carries

(* One more call at the end. *)
LEMMA CarriesMore ==
  ASSUME NEW first, NEW last, NEW calls \in Seq(Call), NEW call \in Call,
         Carries(first, calls, last)
  PROVE  Carries(first, Append(calls, call), Answered(last, call))
<1>1. PICK stores \in [0..Len(calls) -> Store] :
        /\ stores[0] = first /\ stores[Len(calls)] = last
        /\ Course(stores, calls)
  BY DEF Carries
<1> DEFINE n == Len(calls)
           more == Append(calls, call)
           longer == [x \in 0..n + 1 |->
                        IF x <= n THEN stores[x] ELSE Answered(last, call)]
<1>2. n \in Nat /\ Len(more) = n + 1 /\ more[n + 1] = call
      /\ \A x \in 1..n : more[x] = calls[x]
  OBVIOUS
<1>3. last \in Store
  BY <1>1, <1>2
<1>4. Answered(last, call) \in Store
  BY <1>3, AnsweredType
<1> HIDE DEF n, more
<1>5. longer \in [0..Len(more) -> Store]
  BY <1>1, <1>2, <1>4 DEF n
<1>6. \A x \in 0..n : longer[x] = stores[x]
  BY <1>2
<1>7. longer[n + 1] = Answered(last, call) /\ longer[0] = first
  BY <1>1, <1>2, <1>6
<1> HIDE DEF longer
<1>8. ASSUME NEW x \in 1..Len(more)
      PROVE  longer[x] = Answered(longer[x - 1], more[x])
  <2>1. CASE x <= n
    <3>1. x \in 1..n /\ x \in 0..n /\ x - 1 \in 0..n
      BY <1>2, <2>1
    <3>2. stores[x] = Answered(stores[x - 1], calls[x])
      BY <1>1, <3>1 DEF Course, n
    <3> QED BY <1>2, <1>6, <3>1, <3>2
  <2>2. CASE x = n + 1
    <3>1. x - 1 = n /\ n \in 0..n
      BY <1>2, <2>2
    <3> QED BY <1>1, <1>2, <1>6, <1>7, <2>2, <3>1 DEF n
  <2> QED BY <1>2, <2>1, <2>2
<1>9. Course(longer, more)
  BY <1>8 DEF Course
<1> QED BY <1>2, <1>5, <1>7, <1>9 DEF Carries, more

(* One call less at the front. *)
LEMMA CarriesRest ==
  ASSUME NEW first, NEW last, NEW calls \in Seq(Call), calls # <<>>,
         Carries(first, calls, last)
  PROVE  /\ Head(calls) \in Call /\ Tail(calls) \in Seq(Call)
         /\ Carries(Answered(first, Head(calls)), Tail(calls), last)
<1>1. PICK stores \in [0..Len(calls) -> Store] :
        /\ stores[0] = first /\ stores[Len(calls)] = last
        /\ Course(stores, calls)
  BY DEF Carries
<1> DEFINE n == Len(calls)
           rest == Tail(calls)
           shorter == [x \in 0..n - 1 |-> stores[x + 1]]
<1>2. /\ n \in Nat \ {0} /\ Len(rest) = n - 1 /\ Head(calls) = calls[1]
      /\ calls[1] \in Call /\ rest \in Seq(Call)
      /\ \A x \in 1..n - 1 : rest[x] = calls[x + 1]
  OBVIOUS
<1> HIDE DEF n, rest
<1>3. shorter \in [0..Len(rest) -> Store]
  BY <1>1, <1>2 DEF n
<1>4. \A x \in 0..n - 1 : shorter[x] = stores[x + 1]
  OBVIOUS
<1> HIDE DEF shorter
<1>5. shorter[0] = Answered(first, Head(calls)) /\ shorter[Len(rest)] = last
  <2>1. stores[1] = Answered(stores[0], calls[1])
    BY <1>1, <1>2 DEF Course, n
  <2>2. shorter[0] = stores[1] /\ shorter[n - 1] = stores[n]
    BY <1>2, <1>4
  <2> QED BY <1>1, <1>2, <2>1, <2>2 DEF n
<1>6. ASSUME NEW x \in 1..Len(rest)
      PROVE  shorter[x] = Answered(shorter[x - 1], rest[x])
  <2>1. /\ x \in 0..n - 1 /\ x - 1 \in 0..n - 1 /\ x + 1 \in 1..n
        /\ x \in 1..n - 1 /\ (x + 1) - 1 = x /\ (x - 1) + 1 = x
    BY <1>2
  <2>2. stores[x + 1] = Answered(stores[x], calls[x + 1])
    BY <1>1, <2>1 DEF Course, n
  <2> QED BY <1>2, <1>4, <2>1, <2>2
<1>7. Course(shorter, rest)
  BY <1>6 DEF Course
<1> QED BY <1>2, <1>3, <1>5, <1>7 DEF Carries, rest

-----------------------------------------------------------------------------
(* What a call does to a tree. *)

(* The two images are stores. *)
LEMMA ImagesAreStores ==
  ASSUME NEW t \in Tree
  PROVE  ViewOf(t) \in Store /\ ConfirmedOf(t) \in Store
<1>1. \A i \in Fan3, j \in Fan2 : t.l1[i][j] \in L1Node
  BY DEF Tree
<1>2. \A i \in Fan3, j \in Fan2, k \in Fan1 :
        /\ ViewAt(t.l1[i][j], k) \in Value \cup {Absent}
        /\ ConfirmedAt(t.l1[i][j], k) \in Value \cup {Absent}
  BY <1>1 DEF ViewAt, ConfirmedAt, CurrentBytes, L1Node
<1> QED BY <1>2 DEF ViewOf, ConfirmedOf, Store, Slot

(* Nothing predicted at the root, nothing anywhere. *)
LEMMA NothingPredicted ==
  ASSUME NEW t \in Tree, Linked(t), t.root.dirty = {}
  PROVE  NoDirty(t)
<1>1. \A i \in Fan3 : /\ t.l2[i].dirty = {}
                      /\ \A j \in Fan2 : t.l1[i][j].dirty = {}
  BY CleanRoot
<1>2. t.root.confAny \cup t.root.predAny \subseteq Fan3
  BY DEF Tree, Summary
<1>3. \A i \in Fan3 : t.l2[i].confAny \cup t.l2[i].predAny \subseteq Fan2
  BY DEF Tree, Summary
<1> QED BY <1>1, <1>2, <1>3 DEF NoDirty

(* A call answers on the view, and in CONFIRMED mode on the confirmed store;
   the removal of an absent slot, which does nothing, is no exception. *)
LEMMA ApplyAnswers ==
  ASSUME NEW t \in Tree, WellFormed(t), NEW call \in Call
  PROVE  /\ Apply(t, call) \in Tree /\ WellFormed(Apply(t, call))
         /\ Apply(t, call).mode = t.mode
         /\ ViewOf(Apply(t, call)) = Answered(ViewOf(t), call)
         /\ ConfirmedOf(Apply(t, call)) =
              IF t.mode = "CONFIRMED" THEN Answered(ConfirmedOf(t), call)
                                      ELSE ConfirmedOf(t)
<1> DEFINE i == call[1][1]
           j == call[1][2]
           k == call[1][3]
           u == Apply(t, call)
<1>0. Linked(t)
  BY DEF WellFormed
<1>1. /\ i \in Fan3 /\ j \in Fan2 /\ k \in Fan1 /\ call[1] = <<i, j, k>>
      /\ call[1] \in Slot /\ call[2] \in Value \cup {Absent}
  BY DEF Call, Slot
<1>2. u = IF call[2] # Absent THEN GetMut(t, i, j, k, call[2])
          ELSE IF Present(t, i, j, k) THEN RemoveSlot(t, i, j, k)
          ELSE t
  BY DEF Apply
<1> HIDE DEF i, j, k, u
<1>3. CASE call[2] # Absent
  <2>1. u \in Tree /\ WellFormed(u)
    BY <1>1, <1>2, <1>3, GetMutKeeps
  <2>2. PutIn(u, t, i, j, k, call[2])
    BY <1>0, <1>1, <1>2, <1>3, GetMutPuts
  <2> QED BY <1>1, <2>1, <2>2 DEF PutIn, Answered, u
<1>4. CASE call[2] = Absent /\ Present(t, i, j, k)
  <2>1. u \in Tree /\ WellFormed(u)
    BY <1>1, <1>2, <1>4, RemoveKeeps
  <2>2. PutIn(u, t, i, j, k, Absent)
    BY <1>0, <1>1, <1>2, <1>4, RemovePuts
  <2> QED BY <1>1, <1>4, <2>1, <2>2 DEF PutIn, Answered, u
<1>5. CASE call[2] = Absent /\ ~ Present(t, i, j, k)
  <2>1. ViewOf(t)[call[1]] = Absent
    BY <1>1, <1>5 DEF ViewOf, ViewAt, Present
  <2>2. ViewOf(t) \in Store /\ ConfirmedOf(t) \in Store
    BY ImagesAreStores
  <2>3. Answered(ViewOf(t), call) = ViewOf(t)
    BY <1>1, <1>5, <2>1, <2>2 DEF Answered, Store
  <2>4. ASSUME t.mode = "CONFIRMED"
        PROVE  ViewOf(t) = ConfirmedOf(t)
    BY <1>0, <2>4, NothingPredicted, CleanViewConfirmed DEF Linked
  <2> QED BY <1>2, <1>5, <2>3, <2>4 DEF u
<1> QED BY <1>3, <1>4, <1>5

-----------------------------------------------------------------------------
(* The inductive invariant *)

(* What each phase has of the tree, and the modes the loop switches between. *)
PhaseInv ==
  /\ tree \in Tree /\ WellFormed(tree)
  /\ phase \in Phase /\ script \in Seq(Call)
  /\ tree.mode = IF phase \in {"predict", "discarded"} THEN "PREDICT"
                                                       ELSE "CONFIRMED"
  /\ phase = "confirm" => script = <<>>
  /\ phase # "predict" => tree.root.dirty = {}

(* While it predicts, the script leads from the confirmed image to the view;
   afterwards what is left of it leads from the view to a store that has the
   checksum the prediction reached. *)
ScriptInv ==
  /\ phase = "predict" =>
       /\ base = FeedOf(ConfirmedOf(tree))
       /\ Carries(ConfirmedOf(tree), script, ViewOf(tree))
  /\ phase = "discarded" => base = FeedOf(ViewOf(tree))
  /\ phase \in {"discarded", "replay"} =>
       \E end \in Store : /\ Carries(ViewOf(tree), script, end)
                          /\ predicted = FeedOf(end)

IInv == PhaseInv /\ ScriptInv

(* An empty tree, and nothing predicted. *)
LEMMA InitKeeps == Init => IInv
<1> SUFFICES ASSUME Init PROVE IInv
  OBVIOUS
<1>1. tree \in Tree /\ WellFormed(tree)
  BY NewTreeType, NewTreeWellFormed DEF Init
<1>2. tree.mode = "CONFIRMED" /\ tree.root.dirty = {}
  BY DEF Init, NewTree, NoSummary
<1>3. phase = "confirm" /\ script = <<>>
  BY DEF Init
<1> QED BY <1>1, <1>2, <1>3 DEF IInv, PhaseInv, ScriptInv, Phase

(* Every step keeps the phases right. *)
LEMMA NextKeepsPhase == PhaseInv /\ [Next]_vars => PhaseInv'
<1> SUFFICES ASSUME PhaseInv, [Next]_vars PROVE PhaseInv'
  OBVIOUS
<1> USE DEF PhaseInv
<1>0. Linked(tree)
  BY DEF WellFormed
<1>1. ASSUME NEW call \in Call, Confirm(call)
      PROVE  PhaseInv'
  BY <1>1, ApplyAnswers DEF Confirm, WellFormed, Linked
<1>2. ASSUME NEW call \in Call, Predict(call)
      PROVE  PhaseInv'
  BY <1>2, ApplyAnswers DEF Predict
<1>3. CASE StartPrediction
  <2>1. tree' \in Tree /\ WellFormed(tree')
    BY <1>3, SetModeKeeps DEF StartPrediction, Mode
  <2>2. tree'.mode = "PREDICT" /\ tree'.root = tree.root
    BY <1>3 DEF StartPrediction, Tree
  <2> QED BY <1>3, <2>1, <2>2 DEF StartPrediction, Phase
<1>4. CASE Discard
  <2>1. tree' \in Tree /\ WellFormed(tree') /\ tree'.mode = tree.mode
    BY <1>0, <1>4, RollbackKeeps, RollbackDiscards DEF Discard
  <2>2. tree'.root.dirty = {}
    BY <1>4, RollbackClean DEF Discard, NoDirty
  <2> QED BY <1>4, <2>1, <2>2 DEF Discard, Phase
<1>5. CASE StartReplay
  <2>1. tree' \in Tree /\ WellFormed(tree')
    BY <1>5, SetModeKeeps DEF StartReplay, Mode
  <2>2. tree'.mode = "CONFIRMED" /\ tree'.root = tree.root
    BY <1>5 DEF StartReplay, Tree
  <2> QED BY <1>5, <2>1, <2>2 DEF StartReplay, Phase
<1>6. CASE Replay
  <2>1. Head(script) \in Call /\ Tail(script) \in Seq(Call)
    BY <1>6 DEF Replay
  <2>2. /\ tree' \in Tree /\ WellFormed(tree')
        /\ tree'.mode = tree.mode
    BY <1>6, <2>1, ApplyAnswers DEF Replay
  <2> QED BY <1>6, <2>1, <2>2 DEF Replay, WellFormed, Linked
<1>7. CASE Finish
  BY <1>7 DEF Finish, Phase
<1>8. CASE EndTick
  <2>1. /\ tree' \in Tree /\ WellFormed(tree') /\ tree'.mode = tree.mode
        /\ tree'.root = [tree.root EXCEPT !.changed = {}]
    BY <1>0, <1>8, ClearChangedKeeps, ClearChangedParts DEF EndTick
  <2>2. tree'.root.dirty = tree.root.dirty
    BY <2>1 DEF Tree, Summary
  <2> QED BY <1>8, <2>1, <2>2 DEF EndTick
<1>9. CASE EndConfirmedTick
  <2>1. tree' \in Tree /\ WellFormed(tree') /\ tree'.mode = tree.mode
    BY <1>0, <1>9, RollbackKeeps, RollbackDiscards DEF EndConfirmedTick
  <2>2. tree'.root.dirty = {}
    BY <1>9, RollbackClean DEF EndConfirmedTick, NoDirty
  <2> QED BY <1>9, <2>1, <2>2 DEF EndConfirmedTick
<1>10. CASE UNCHANGED vars
  BY <1>10 DEF vars
<1> QED BY <1>1, <1>2, <1>3, <1>4, <1>5, <1>6, <1>7, <1>8, <1>9, <1>10 DEF Next

(* Every step keeps the script between the two checksums. *)
LEMMA NextKeepsScript == IInv /\ [Next]_vars => ScriptInv'
<1> SUFFICES ASSUME IInv, [Next]_vars PROVE ScriptInv'
  OBVIOUS
<1> USE DEF IInv
<1>1. /\ tree \in Tree /\ WellFormed(tree) /\ Linked(tree)
      /\ ViewOf(tree) \in Store /\ ConfirmedOf(tree) \in Store
      /\ CrcFeed(tree) = FeedOf(ViewOf(tree))
  BY ImagesAreStores, FeedOfView DEF PhaseInv, WellFormed
<1>2. tree.root.dirty = {} => NoDirty(tree) /\ ViewOf(tree) = ConfirmedOf(tree)
  BY <1>1, NothingPredicted, CleanViewConfirmed
<1>3. ASSUME NEW call \in Call, Confirm(call)
      PROVE  ScriptInv'
  BY <1>3 DEF Confirm, ScriptInv
<1>4. ASSUME NEW call \in Call, Predict(call)
      PROVE  ScriptInv'
  <2>1. tree.mode = "PREDICT" /\ phase = "predict" /\ script \in Seq(Call)
    BY <1>4 DEF Predict, PhaseInv
  <2>2. /\ ViewOf(tree') = Answered(ViewOf(tree), call)
        /\ ConfirmedOf(tree') = ConfirmedOf(tree)
    BY <1>1, <1>4, <2>1, ApplyAnswers DEF Predict
  <2>3. Carries(ConfirmedOf(tree), Append(script, call), Answered(ViewOf(tree), call))
    BY <2>1, CarriesMore DEF ScriptInv
  <2> QED BY <1>4, <2>1, <2>2, <2>3 DEF Predict, ScriptInv
<1>5. CASE StartPrediction
  <2>1. /\ tree'.l1 = tree.l1
        /\ script = <<>> /\ ViewOf(tree) = ConfirmedOf(tree)
    BY <1>1, <1>2, <1>5 DEF StartPrediction, PhaseInv, Tree
  <2>2. ViewOf(tree') = ViewOf(tree) /\ ConfirmedOf(tree') = ConfirmedOf(tree)
    BY <2>1 DEF ViewOf, ConfirmedOf
  <2>3. Carries(ConfirmedOf(tree), script, ViewOf(tree))
    BY <1>1, <2>1, CarriesNone
  <2> QED BY <1>1, <1>5, <2>1, <2>2, <2>3 DEF StartPrediction, ScriptInv
<1>6. CASE Discard
  <2>1. ViewOf(tree') = ConfirmedOf(tree)
    BY <1>1, <1>6, RollbackDiscards DEF Discard
  <2>2. predicted' = FeedOf(ViewOf(tree)) /\ base' = FeedOf(ConfirmedOf(tree))
    BY <1>1, <1>6 DEF Discard, ScriptInv
  <2>3. Carries(ViewOf(tree'), script', ViewOf(tree))
    BY <1>6, <2>1 DEF Discard, ScriptInv
  <2> QED BY <1>1, <1>6, <2>1, <2>2, <2>3 DEF Discard, ScriptInv
<1>7. CASE StartReplay
  <2>1. tree'.l1 = tree.l1
    BY <1>1, <1>7 DEF StartReplay, Tree
  <2>2. ViewOf(tree') = ViewOf(tree)
    BY <2>1 DEF ViewOf
  <2> QED BY <1>7, <2>2 DEF StartReplay, ScriptInv
<1>8. CASE Replay
  <2>1. PICK end \in Store : /\ Carries(ViewOf(tree), script, end)
                             /\ predicted = FeedOf(end)
    BY <1>8 DEF Replay, ScriptInv
  <2>2. script \in Seq(Call) /\ script # <<>>
    BY <1>8 DEF Replay, PhaseInv
  <2>3. /\ Head(script) \in Call
        /\ Carries(Answered(ViewOf(tree), Head(script)), Tail(script), end)
    BY <2>1, <2>2, CarriesRest
  <2>4. ViewOf(tree') = Answered(ViewOf(tree), Head(script))
    BY <1>1, <1>8, <2>3, ApplyAnswers DEF Replay
  <2> QED BY <1>8, <2>1, <2>3, <2>4 DEF Replay, ScriptInv
<1>9. CASE Finish
  BY <1>9 DEF Finish, ScriptInv
<1>10. CASE EndTick
  <2>1. ViewOf(tree') = ViewOf(tree) /\ ConfirmedOf(tree') = ConfirmedOf(tree)
    BY <1>1, <1>10, EndTickStutters DEF EndTick
  <2> QED BY <1>10, <2>1 DEF EndTick, ScriptInv
<1>11. CASE EndConfirmedTick
  <2>1. ViewOf(tree) = ConfirmedOf(tree) /\ phase # "predict"
    BY <1>2, <1>11 DEF EndConfirmedTick, PhaseInv
  <2>2. ViewOf(tree') = ViewOf(tree)
    BY <1>1, <1>11, <2>1, RollbackDiscards DEF EndConfirmedTick
  <2> QED BY <1>11, <2>1, <2>2 DEF EndConfirmedTick, ScriptInv
<1>12. CASE UNCHANGED vars
  BY <1>12 DEF vars, ScriptInv
<1> QED BY <1>3, <1>4, <1>5, <1>6, <1>7, <1>8, <1>9, <1>10, <1>11, <1>12 DEF Next

(* The invariant holds in every reachable state. *)
LEMMA Invariance == Spec => []IInv
<1>1. IInv /\ [Next]_vars => IInv'
  BY NextKeepsPhase, NextKeepsScript DEF IInv
<1> QED BY <1>1, InitKeeps, PTL DEF Spec

-----------------------------------------------------------------------------
(* However long the script and whatever it writes and removes, discarding it
   restores the checksum it started from, and its replay as confirmed calls
   reaches the checksum that the prediction had. *)
THEOREM ReplayReachesPrediction == Spec => []ReplayAgrees
<1>1. IInv => ReplayAgrees
  <2> SUFFICES ASSUME IInv PROVE ReplayAgrees
    OBVIOUS
  <2> USE DEF IInv
  <2>1. tree \in Tree /\ Linked(tree)
    BY DEF PhaseInv, WellFormed
  <2>2. CrcFeed(tree) = FeedOf(ViewOf(tree))
    BY <2>1, FeedOfView
  <2>3. ASSUME phase = "discarded"
        PROVE  NoDirty(tree) /\ CrcFeed(tree) = base
    BY <2>1, <2>2, <2>3, NothingPredicted DEF PhaseInv, ScriptInv
  <2>4. ASSUME phase = "replay", script = <<>>
        PROVE  CrcFeed(tree) = predicted
    BY <2>2, <2>4, CarriesNothing DEF ScriptInv
  <2> QED BY <2>3, <2>4 DEF ReplayAgrees
<1> QED BY <1>1, Invariance, PTL
=============================================================================
