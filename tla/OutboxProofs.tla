---------------------------- MODULE OutboxProofs ----------------------------
(***************************************************************************)
(* Proofs about OutboxDispatcher, for any number of events, replicas,      *)
(* recipients and faults and for every setting.                            *)
(***************************************************************************)
EXTENDS OutboxDispatcher, TLAPS

-----------------------------------------------------------------------------
(* Typing                                                                  *)

(* The delay _backoff_delay computes is a number, within its cap.          *)
LEMMA BackoffType == \A a \in Nat : Backoff(a) \in Int /\ Backoff(a) <= BackoffCap
  <1> TAKE a \in Nat
  <1> DEFINE k == IF a > 1 THEN a - 1 ELSE 0
  <1>1. k \in Nat
    OBVIOUS
  <1>2. 2^k \in Int
    BY <1>1
  <1>3. BackoffBase * 2^k \in Int
    <2> HIDE DEF k
    <2> QED BY <1>2, NumbersAssumption
  <1> QED BY <1>3, NumbersAssumption DEF Backoff

(* Counting an attempt never lowers the counter and leaves it positive.    *)
LEMMA BumpType ==
  \A a \in Nat : Bump(a) \in Nat /\ Bump(a) >= a /\ Bump(a) > 0
  BY NumbersAssumption, NoneAssumption DEF Bump

(* Every row image that _process_event or the clock writes is a row, and   *)
(* has counted its attempts.                                               *)
LEMMA RowTypes ==
  ASSUME NEW r \in Row
  PROVE  /\ SentRow(r) \in Row /\ Counted(SentRow(r))
         /\ \A w \in Workers : UnhandledRow(r, w) \in Row /\ Counted(UnhandledRow(r, w))
         /\ FailedRow(r) \in Row /\ Counted(FailedRow(r))
         /\ Elapse(r) \in Row /\ (Counted(r) => Counted(Elapse(r)))
  <1>1. SentRow(r) \in Row /\ Counted(SentRow(r))
    BY DEF SentRow, Row, Status, Counted
  <1>2. Bump(r.attempts) \in Nat /\ Bump(r.attempts) > 0
    BY BumpType DEF Row
  <1>3. /\ Backoff(Bump(r.attempts)) \in Int /\ Backoff(Bump(r.attempts)) <= BackoffCap
        /\ Backoff(Bump(r.attempts)) # None
    BY <1>2, BackoffType, NoneAssumption
  <1>4. ASSUME NEW w \in Workers PROVE UnhandledRow(r, w) \in Row /\ Counted(UnhandledRow(r, w))
    BY <1>2, <1>3 DEF UnhandledRow, Row, Status, Counted
  <1>5. FailedRow(r) \in Row /\ Counted(FailedRow(r))
    BY <1>2, <1>3 DEF FailedRow, Row, Status, Counted
  <1>6. Elapse(r) \in Row /\ (Counted(r) => Counted(Elapse(r)))
    BY NoneAssumption, NumbersAssumption DEF Elapse, Row, Status, Counted
  <1> QED BY <1>1, <1>4, <1>5, <1>6

(* The initial, empty values are well typed.                               *)
LEMMA ConstantTypes ==
  /\ NoRow \in Row
  /\ NewRow \in Row
  /\ Counted(NoRow) /\ Counted(NewRow)
  /\ NoNotes \in [Events -> [Users -> Nat]]
  BY DEF NoRow, NewRow, NoNotes, Row, Status, Counted

(* A fan-out leaves the uncommitted inserts well typed.                    *)
LEMMA FanoutType ==
  ASSUME TypeOK, NEW w \in Workers, NEW e \in Events, NEW S
  PROVE  Fanout(w, e, S) \in [Workers -> [Events -> [Users -> Nat]]]
  BY DEF TypeOK, Fanout

(* Every step keeps the state well typed.                                  *)
LEMMA TypeStep == TypeOK /\ [Next]_vars => TypeOK'
  <1> SUFFICES ASSUME TypeOK, [Next]_vars PROVE TypeOK'
    OBVIOUS
  <1> USE DEF TypeOK
  <1>1. ASSUME NEW e \in Events, Publish(e) PROVE TypeOK'
    BY <1>1, ConstantTypes DEF Publish, txVars
  <1>2. ASSUME NEW u \in Users, Deactivate(u) PROVE TypeOK'
    BY <1>2 DEF Deactivate, txVars
  <1>3. CASE Tick
    <2>1. row' \in [Events -> Row]
      BY <1>3, RowTypes DEF Tick
    <2>2. txRow' \in [Workers -> [Events -> Row]]
      BY <1>3, RowTypes DEF Tick
    <2>3. lease' \in 0..LockTTL
      BY <1>3, NumbersAssumption DEF Tick
    <2>4. \A e \in Events : Counted(row[e])' /\ \A w \in Workers : Counted(txRow[w][e])'
      <3> TAKE e \in Events
      <3>1. row'[e] = Elapse(row[e]) /\ \A w \in Workers : txRow'[w][e] = Elapse(txRow[w][e])
        BY <1>3 DEF Tick
      <3>2. Counted(row'[e]) /\ \A w \in Workers : Counted(txRow'[w][e])
        BY <3>1, RowTypes
      <3> QED BY <3>2 DEF Counted
    <2> QED BY <1>3, <2>1, <2>2, <2>3, <2>4 DEF Tick
  <1>4. ASSUME NEW w \in Workers, AcquireLease(w) PROVE TypeOK'
    BY <1>4, NumbersAssumption DEF AcquireLease, txVars
  <1>5. ASSUME NEW w \in Workers, SkipLease(w) PROVE TypeOK'
    BY <1>5, NumbersAssumption DEF SkipLease, txVars
  <1>6. ASSUME NEW w \in Workers, Fetch(w) PROVE TypeOK'
    <2> DEFINE free == {e \in Events : /\ Due(row[e])
                                       /\ \A v \in Workers : e \notin claimed[v]}
    <2>1. Oldest(free, BatchSize) \subseteq Events
      BY DEF Oldest
    <2> QED BY <1>6, <2>1 DEF Fetch
  <1>7. ASSUME NEW w \in Workers, NEW e \in Events, NoHandler(w, e) PROVE TypeOK'
    BY <1>7, RowTypes DEF NoHandler, Processed
  <1>8. ASSUME NEW w \in Workers, NEW e \in Events, HandlerReturns(w, e) PROVE TypeOK'
    <2>1. txNotes' \in [Workers -> [Events -> [Users -> Nat]]]
      BY <1>8, FanoutType DEF HandlerReturns
    <2> QED BY <1>8, <2>1, RowTypes DEF HandlerReturns, Processed
  <1>9. ASSUME NEW w \in Workers, NEW e \in Events, HandlerRaises(w, e) PROVE TypeOK'
    <2>1. txNotes' \in [Workers -> [Events -> [Users -> Nat]]]
      BY <1>9, FanoutType DEF HandlerRaises
    <2>2. faults' \in 0..MaxFaults
      BY <1>9, NumbersAssumption DEF HandlerRaises
    <2> QED BY <1>9, <2>1, <2>2, RowTypes DEF HandlerRaises, Processed
  <1>10. ASSUME NEW w \in Workers, Commit(w) PROVE TypeOK'
    <2>1. row' \in [Events -> Row]
      BY <1>10 DEF Commit
    <2>2. notes' \in [Events -> [Users -> Nat]]
      BY <1>10 DEF Commit
    <2> QED BY <1>10, <2>1, <2>2, ConstantTypes DEF Commit, EndPass
  <1>11. ASSUME NEW w \in Workers, PassFails(w) PROVE TypeOK'
    <2>1. faults' \in 0..MaxFaults
      BY <1>11, NumbersAssumption DEF PassFails
    <2> QED BY <1>11, <2>1, ConstantTypes DEF PassFails, EndPass
  <1>12. CASE UNCHANGED vars
    BY <1>12 DEF vars
  <1> QED
    BY <1>1, <1>2, <1>3, <1>4, <1>5, <1>6, <1>7, <1>8, <1>9, <1>10, <1>11, <1>12
    DEF Next, WorkerStep, Process

(* The workers and their buffers stay well formed, whatever the attempts   *)
(* counter grows to, and every FAILED row has counted its attempts: it is   *)
(* due again within the cap of the backoff, or a dead letter.               *)
THEOREM TypeInvariant == Spec => []TypeOK
  <1>1. Init => TypeOK
    BY ConstantTypes, NumbersAssumption DEF Init, TypeOK
  <1> QED BY <1>1, TypeStep, PTL DEF Spec

-----------------------------------------------------------------------------
(* The inductive invariant                                                 *)

(* Locks are held inside a pass only, and the loop of run_once runs over   *)
(* rows it has locked.                                                     *)
ClaimsScoped ==
  \A w \in Workers : /\ todo[w] \subseteq claimed[w]
                     /\ pc[w] # "process" => claimed[w] = {}

(* A locked row is still as _fetch_due_events saw it: open.                *)
ClaimedOpen ==
  \A w \in Workers : \A e \in claimed[w] : row[e].status \in {"PENDING", "FAILED"}

(* Uncommitted notifications belong to events the pass has processed.      *)
BufferScoped ==
  \A w \in Workers, e \in Events, u \in Users :
    txNotes[w][e][u] # 0 => e \in claimed[w] \ todo[w]

(* Committed and uncommitted notifications together are at most one.       *)
PairBound ==
  \A w \in Workers, e \in Events, u \in Users :
    notes[e][u] + txNotes[w][e][u] <= 1

(* The image a pass has written for an event is an outcome of              *)
(* _process_event, counted from the committed row.                         *)
ImageOutcome ==
  \A w \in Workers : \A e \in claimed[w] \ todo[w] :
    /\ \/ txRow[w][e].status = "SENT"
       \/ txRow[w][e].status = "FAILED" /\ txRow[w][e].attempts > 0
    /\ txRow[w][e].attempts >= row[e].attempts

(* An event the pass is about to commit as SENT has reached everyone.      *)
ImageDelivered ==
  \A w \in Workers : \A e \in claimed[w] \ todo[w] :
    txRow[w][e].status = "SENT" =>
      \A u \in Recipients[e] \ inactive : notes[e][u] + txNotes[w][e][u] >= 1

IInv ==
  /\ TypeOK
  /\ ClaimsScoped
  /\ ClaimsDisjoint
  /\ ClaimedOpen
  /\ BufferScoped
  /\ PairBound
  /\ ImageOutcome
  /\ ImageDelivered
  /\ SentMeansDelivered
  /\ NotificationsAreRecorded

(* A fan-out touches one event of one transaction, and there it fills only *)
(* slots that are empty in the committed rows and in the buffer.           *)
LEMMA FanoutFacts ==
  ASSUME TypeOK, NEW w \in Workers, NEW e \in Events, NEW S
  PROVE  /\ \A v \in Workers, f \in Events : v # w \/ f # e =>
              Fanout(w, e, S)[v][f] = txNotes[v][f]
         /\ \A u \in Users : Fanout(w, e, S)[w][e][u] =
              IF u \in S /\ ~(notes[e][u] + txNotes[w][e][u] > 0)
                THEN txNotes[w][e][u] + 1 ELSE txNotes[w][e][u]
  BY DEF TypeOK, Fanout, Seen

(* Serving nobody changes nothing.                                         *)
LEMMA FanoutNobody ==
  ASSUME TypeOK, NEW w \in Workers, NEW e \in Events
  PROVE  Fanout(w, e, {}) = txNotes
  BY DEF TypeOK, Fanout

(* One iteration of run_once's loop keeps the invariant, whatever the      *)
(* branch of _process_event: the image is an outcome, and it says SENT     *)
(* only after a fan-out to the whole audience.                             *)
LEMMA ProcessStep ==
  ASSUME IInv, TypeOK',
         NEW w \in Workers, NEW e \in Events, NEW r \in Row, NEW S \in SUBSET Users,
         pc[w] = "process", IsNext(w, e), Processed(w, e, r),
         txNotes' = Fanout(w, e, S),
         \/ r.status = "SENT" /\ Audience(e) \subseteq S
         \/ r.status = "FAILED" /\ r.attempts > 0,
         r.attempts >= row[e].attempts
  PROVE  IInv'
  <1> USE DEF Processed
  <1>1. e \in todo[w] /\ e \in claimed[w]
    BY DEF IsNext, IInv, ClaimsScoped
  <1>2. /\ \A v \in Workers, f \in Events : v # w \/ f # e => txNotes'[v][f] = txNotes[v][f]
        /\ \A u \in Users : txNotes'[w][e][u] =
              IF u \in S /\ ~(notes[e][u] + txNotes[w][e][u] > 0)
                THEN txNotes[w][e][u] + 1 ELSE txNotes[w][e][u]
    BY FanoutFacts DEF IInv
  <1>3. /\ \A v \in Workers : todo'[v] \subseteq todo[v]
        /\ \A v \in Workers : v # w => todo'[v] = todo[v]
        /\ todo'[w] = todo[w] \ {e}
    BY DEF IInv, TypeOK
  <1>4. /\ \A v \in Workers, f \in Events : v # w \/ f # e => txRow'[v][f] = txRow[v][f]
        /\ txRow'[w][e] = r
    BY DEF IInv, TypeOK
  <1>5. ClaimsScoped'
    BY <1>3 DEF IInv, ClaimsScoped
  <1>6. ClaimsDisjoint' /\ ClaimedOpen'
    BY DEF IInv, ClaimsDisjoint, ClaimedOpen
  <1>7. BufferScoped'
    BY <1>1, <1>2, <1>3 DEF IInv, BufferScoped
  <1>8. PairBound'
    <2> SUFFICES ASSUME NEW v \in Workers, NEW f \in Events, NEW u \in Users
                 PROVE  notes[f][u] + txNotes'[v][f][u] <= 1
      BY DEF PairBound
    <2>1. /\ notes[f][u] \in Nat /\ txNotes[v][f][u] \in Nat
          /\ notes[f][u] + txNotes[v][f][u] <= 1
      BY DEF IInv, TypeOK, PairBound
    <2>2. CASE v = w /\ f = e
      BY <1>2, <2>1, <2>2
    <2>3. CASE v # w \/ f # e
      BY <1>2, <2>1, <2>3
    <2> QED BY <2>2, <2>3
  <1>9. ImageOutcome'
    BY <1>3, <1>4 DEF IInv, ImageOutcome
  <1>10. ImageDelivered'
    <2> SUFFICES ASSUME NEW v \in Workers, NEW f \in claimed[v], f \notin todo'[v],
                        txRow'[v][f].status = "SENT",
                        NEW u \in Recipients[f] \ inactive
                 PROVE  notes[f][u] + txNotes'[v][f][u] >= 1
      BY DEF ImageDelivered
    <2>1. f \in Events /\ u \in Users
      BY SetsAssumption DEF IInv, TypeOK
    <2>2. notes[f][u] \in Nat /\ txNotes[v][f][u] \in Nat
      BY <2>1 DEF IInv, TypeOK
    <2>3. CASE v = w /\ f = e
      <3>1. u \in S
        BY <1>4, <2>3 DEF Audience
      <3> QED BY <1>2, <2>1, <2>2, <2>3, <3>1
    <2>4. CASE v # w \/ f # e
      <3>1. f \in claimed[v] \ todo[v]
        BY <1>3, <2>4
      <3> QED BY <1>2, <1>4, <2>1, <2>4, <3>1 DEF IInv, ImageDelivered
    <2> QED BY <2>3, <2>4
  <1>11. SentMeansDelivered' /\ NotificationsAreRecorded'
    BY DEF IInv, SentMeansDelivered, NotificationsAreRecorded
  <1> QED BY <1>5, <1>6, <1>7, <1>8, <1>9, <1>10, <1>11 DEF IInv

(* A domain commit adds a row nobody has claimed or notified about yet.    *)
LEMMA PublishStep ==
  ASSUME IInv, TypeOK', NEW e \in Events, Publish(e)
  PROVE  IInv'
  <1> USE DEF Publish, txVars
  <1>1. \A w \in Workers : e \notin claimed[w]
    BY DEF IInv, ClaimedOpen
  <1>2. \A u \in Users : ~(notes[e][u] > 0)
    BY DEF IInv, NotificationsAreRecorded
  <1>3. row'[e].status = "PENDING" /\ \A f \in Events : f # e => row'[f] = row[f]
    BY DEF IInv, TypeOK, NewRow, NoRow
  <1>4. ClaimsScoped' /\ ClaimsDisjoint' /\ BufferScoped' /\ PairBound' /\ ImageDelivered'
    BY DEF IInv, ClaimsScoped, ClaimsDisjoint, BufferScoped, PairBound, ImageDelivered
  <1>5. ClaimedOpen'
    BY <1>1, <1>3 DEF IInv, TypeOK, ClaimedOpen
  <1>6. ImageOutcome'
    BY <1>1, <1>3 DEF IInv, TypeOK, ImageOutcome
  <1>7. SentMeansDelivered'
    BY <1>3 DEF IInv, SentMeansDelivered
  <1>8. NotificationsAreRecorded'
    BY <1>2, <1>3 DEF IInv, NotificationsAreRecorded
  <1> QED BY <1>4, <1>5, <1>6, <1>7, <1>8 DEF IInv

(* The clock changes no status and no counter.                             *)
LEMMA TickStep ==
  ASSUME IInv, TypeOK', Tick
  PROVE  IInv'
  <1>1. \A f \in Events : row'[f].status = row[f].status /\ row'[f].attempts = row[f].attempts
    BY DEF Tick, Elapse, IInv, TypeOK, Row
  <1>2. \A w \in Workers, f \in Events : /\ txRow'[w][f].status = txRow[w][f].status
                                         /\ txRow'[w][f].attempts = txRow[w][f].attempts
    BY DEF Tick, Elapse, IInv, TypeOK, Row
  <1>3. UNCHANGED <<notes, inactive, pc, claimed, todo, txNotes>>
    BY DEF Tick
  <1>4. \A w \in Workers : claimed[w] \subseteq Events
    BY DEF IInv, TypeOK
  <1>5. ClaimsScoped' /\ ClaimsDisjoint' /\ BufferScoped' /\ PairBound'
    BY <1>3 DEF IInv, ClaimsScoped, ClaimsDisjoint, BufferScoped, PairBound
  <1>6. ClaimedOpen'
    BY <1>1, <1>3, <1>4 DEF IInv, ClaimedOpen
  <1>7. ImageOutcome'
    BY <1>1, <1>2, <1>3, <1>4 DEF IInv, ImageOutcome
  <1>8. ImageDelivered'
    BY <1>2, <1>3, <1>4 DEF IInv, ImageDelivered
  <1>9. SentMeansDelivered' /\ NotificationsAreRecorded'
    BY <1>1, <1>3 DEF IInv, SentMeansDelivered, NotificationsAreRecorded
  <1> QED BY <1>5, <1>6, <1>7, <1>8, <1>9 DEF IInv

(* A pass claims open rows that no other transaction has locked.           *)
LEMMA FetchStep ==
  ASSUME IInv, TypeOK', NEW w \in Workers, Fetch(w)
  PROVE  IInv'
  <1> DEFINE free == {e \in Events : /\ Due(row[e])
                                     /\ \A v \in Workers : e \notin claimed[v]}
             B == Oldest(free, BatchSize)
  <1>1. /\ claimed' = [claimed EXCEPT ![w] = B]
        /\ todo' = [todo EXCEPT ![w] = B]
        /\ B \subseteq Events
        /\ \A e \in B : Due(row[e]) /\ \A v \in Workers : e \notin claimed[v]
    <2>1. B \subseteq free
      BY DEF Oldest
    <2> QED BY <2>1 DEF Fetch
  <1> HIDE DEF free, B
  <1>2. /\ claimed'[w] = B /\ todo'[w] = B
        /\ \A v \in Workers : v # w => claimed'[v] = claimed[v] /\ todo'[v] = todo[v]
    BY <1>1 DEF IInv, TypeOK
  <1>3. claimed[w] = {} /\ pc'[w] = "process" /\ \A v \in Workers : v # w => pc'[v] = pc[v]
    BY DEF Fetch, IInv, TypeOK, ClaimsScoped
  <1>4. UNCHANGED <<row, notes, inactive, txRow, txNotes>>
    BY DEF Fetch
  <1>5. ClaimsScoped'
    BY <1>2, <1>3 DEF IInv, ClaimsScoped
  <1>6. ClaimsDisjoint'
    BY <1>1, <1>2 DEF IInv, ClaimsDisjoint
  <1>7. ClaimedOpen'
    BY <1>1, <1>2, <1>4 DEF IInv, ClaimedOpen, Due
  <1>8. BufferScoped'
    BY <1>2, <1>3, <1>4 DEF IInv, BufferScoped
  <1>9. PairBound' /\ SentMeansDelivered' /\ NotificationsAreRecorded'
    BY <1>4 DEF IInv, PairBound, SentMeansDelivered, NotificationsAreRecorded
  <1>10. ImageOutcome' /\ ImageDelivered'
    BY <1>2, <1>4 DEF IInv, ImageOutcome, ImageDelivered
  <1> QED BY <1>5, <1>6, <1>7, <1>8, <1>9, <1>10 DEF IInv

(* The end of a transaction releases its locks and drops its buffer.       *)
LEMMA EndPassFacts ==
  ASSUME TypeOK, NEW w \in Workers, EndPass(w)
  PROVE  /\ pc'[w] = "sleep" /\ claimed'[w] = {} /\ todo'[w] = {}
         /\ \A e \in Events, u \in Users : txNotes'[w][e][u] = 0
         /\ \A v \in Workers : v # w => /\ pc'[v] = pc[v]
                                        /\ claimed'[v] = claimed[v]
                                        /\ todo'[v] = todo[v]
                                        /\ txRow'[v] = txRow[v]
                                        /\ txNotes'[v] = txNotes[v]
         /\ UNCHANGED inactive
  BY DEF EndPass, TypeOK, NoNotes

(* A rolled back pass leaves the committed state as it was.                *)
LEMMA PassFailsStep ==
  ASSUME IInv, TypeOK', NEW w \in Workers, PassFails(w)
  PROVE  IInv'
  <1>1. EndPass(w) /\ UNCHANGED <<row, notes>>
    BY DEF PassFails
  <1>2. TypeOK
    BY DEF IInv
  <1>3. ClaimsScoped'
    BY <1>1, <1>2, EndPassFacts DEF IInv, ClaimsScoped
  <1>4. ClaimsDisjoint'
    BY <1>1, <1>2, EndPassFacts DEF IInv, ClaimsDisjoint
  <1>5. ClaimedOpen'
    BY <1>1, <1>2, EndPassFacts DEF IInv, ClaimedOpen
  <1>6. BufferScoped'
    BY <1>1, <1>2, EndPassFacts DEF IInv, BufferScoped
  <1>7. PairBound'
    <2> SUFFICES ASSUME NEW v \in Workers, NEW f \in Events, NEW u \in Users
                 PROVE  notes[f][u] + txNotes'[v][f][u] <= 1
      BY <1>1 DEF PairBound
    <2>1. /\ notes[f][u] \in Nat /\ txNotes[v][f][u] \in Nat
          /\ notes[f][u] + txNotes[v][f][u] <= 1
      BY DEF IInv, TypeOK, PairBound
    <2>2. txNotes'[v][f][u] = 0 \/ txNotes'[v][f][u] = txNotes[v][f][u]
      BY <1>1, <1>2, EndPassFacts
    <2> QED BY <2>1, <2>2
  <1>8. ImageOutcome'
    BY <1>1, <1>2, EndPassFacts DEF IInv, ImageOutcome
  <1>9. ImageDelivered'
    BY <1>1, <1>2, EndPassFacts DEF IInv, ImageDelivered
  <1>10. SentMeansDelivered' /\ NotificationsAreRecorded'
    BY <1>1, <1>2, EndPassFacts DEF IInv, SentMeansDelivered, NotificationsAreRecorded
  <1> QED BY <1>3, <1>4, <1>5, <1>6, <1>7, <1>8, <1>9, <1>10 DEF IInv

(* A commit publishes the buffer: no other transaction holds its rows, so  *)
(* nothing another pass has computed becomes stale.                        *)
LEMMA CommitStep ==
  ASSUME IInv, TypeOK', NEW w \in Workers, Commit(w)
  PROVE  IInv'
  <1>1. /\ todo[w] = {} /\ EndPass(w)
        /\ \A e \in Events : row'[e] = IF e \in claimed[w] THEN txRow[w][e] ELSE row[e]
        /\ \A e \in Events, u \in Users : notes'[e][u] = notes[e][u] + txNotes[w][e][u]
    BY DEF Commit
  <1>2. TypeOK
    BY DEF IInv
  <1>3. \A v \in Workers : claimed[v] \subseteq Events
    BY <1>2 DEF TypeOK
  <1>4. \A v \in Workers : v # w => \A e \in claimed[v] : row'[e] = row[e]
    BY <1>1, <1>3 DEF IInv, ClaimsDisjoint
  <1>5. \A v \in Workers, e \in Events, u \in Users :
          v # w /\ e \in claimed[v] => notes'[e][u] = notes[e][u]
    <2> SUFFICES ASSUME NEW v \in Workers, NEW e \in Events, NEW u \in Users,
                        v # w, e \in claimed[v]
                 PROVE  notes'[e][u] = notes[e][u]
      OBVIOUS
    <2>1. txNotes[w][e][u] = 0
      BY DEF IInv, ClaimsDisjoint, BufferScoped
    <2>2. notes[e][u] \in Nat
      BY <1>2 DEF TypeOK
    <2> QED BY <1>1, <2>1, <2>2
  <1>6. ClaimsScoped'
    BY <1>1, <1>2, EndPassFacts DEF IInv, ClaimsScoped
  <1>7. ClaimsDisjoint'
    BY <1>1, <1>2, EndPassFacts DEF IInv, ClaimsDisjoint
  <1>8. ClaimedOpen'
    BY <1>1, <1>2, <1>4, EndPassFacts DEF IInv, ClaimedOpen
  <1>9. BufferScoped'
    BY <1>1, <1>2, EndPassFacts DEF IInv, BufferScoped
  <1>10. PairBound'
    <2> SUFFICES ASSUME NEW v \in Workers, NEW f \in Events, NEW u \in Users
                 PROVE  notes'[f][u] + txNotes'[v][f][u] <= 1
      BY DEF PairBound
    <2>1. /\ notes[f][u] \in Nat /\ txNotes[v][f][u] \in Nat /\ txNotes[w][f][u] \in Nat
          /\ notes[f][u] + txNotes[v][f][u] <= 1
          /\ notes[f][u] + txNotes[w][f][u] <= 1
      BY DEF IInv, TypeOK, PairBound
    <2>2. CASE v = w
      BY <1>1, <1>2, <2>1, <2>2, EndPassFacts
    <2>3. CASE v # w /\ f \in claimed[v]
      BY <1>1, <1>2, <1>5, <2>1, <2>3, EndPassFacts
    <2>4. CASE v # w /\ f \notin claimed[v]
      <3>1. txNotes[v][f][u] = 0
        BY <2>4 DEF IInv, BufferScoped
      <3> QED BY <1>1, <1>2, <2>1, <2>4, <3>1, EndPassFacts
    <2> QED BY <2>2, <2>3, <2>4
  <1>11. ImageOutcome'
    BY <1>1, <1>2, <1>4, EndPassFacts DEF IInv, ImageOutcome
  <1>12. ImageDelivered'
    <2> SUFFICES ASSUME NEW v \in Workers, NEW f \in claimed'[v], f \notin todo'[v],
                        txRow'[v][f].status = "SENT",
                        NEW u \in Recipients[f] \ inactive'
                 PROVE  notes'[f][u] + txNotes'[v][f][u] >= 1
      BY DEF ImageDelivered
    <2>1. v # w /\ f \in claimed[v] \ todo[v]
      BY <1>1, <1>2, EndPassFacts
    <2>2. f \in Events /\ u \in Users
      BY <1>3, <2>1, SetsAssumption
    <2>3. notes[f][u] + txNotes[v][f][u] >= 1
      BY <1>1, <1>2, <2>1, EndPassFacts DEF IInv, ImageDelivered
    <2> QED BY <1>1, <1>2, <1>5, <2>1, <2>2, <2>3, EndPassFacts
  <1>13. SentMeansDelivered'
    <2> SUFFICES ASSUME NEW e \in Events, row'[e].status = "SENT",
                        NEW u \in Recipients[e] \ inactive
                 PROVE  notes'[e][u] >= 1
      BY <1>1, <1>2, EndPassFacts DEF SentMeansDelivered
    <2>1. u \in Users
      BY SetsAssumption
    <2>2. notes[e][u] \in Nat /\ txNotes[w][e][u] \in Nat
      BY <1>2, <2>1 DEF TypeOK
    <2>3. CASE e \in claimed[w]
      BY <1>1, <2>1, <2>3 DEF IInv, ImageDelivered
    <2>4. CASE e \notin claimed[w]
      BY <1>1, <2>1, <2>2, <2>4 DEF IInv, SentMeansDelivered
    <2> QED BY <2>3, <2>4
  <1>14. NotificationsAreRecorded'
    <2> SUFFICES ASSUME NEW e \in Events, NEW u \in Users, notes'[e][u] > 0
                 PROVE  \/ row'[e].status = "SENT"
                        \/ row'[e].status = "FAILED" /\ row'[e].attempts > 0
      BY DEF NotificationsAreRecorded
    <2>1. CASE e \in claimed[w]
      BY <1>1, <2>1 DEF IInv, ImageOutcome
    <2>2. CASE e \notin claimed[w]
      <3>1. txNotes[w][e][u] = 0 /\ notes[e][u] \in Nat
        BY <2>2 DEF IInv, BufferScoped, TypeOK
      <3> QED BY <1>1, <2>2, <3>1 DEF IInv, NotificationsAreRecorded
    <2> QED BY <2>1, <2>2
  <1> QED BY <1>6, <1>7, <1>8, <1>9, <1>10, <1>11, <1>12, <1>13, <1>14 DEF IInv

(* Every step keeps the inductive invariant.                               *)
LEMMA InductiveStep == IInv /\ [Next]_vars => IInv'
  <1> SUFFICES ASSUME IInv, [Next]_vars PROVE IInv'
    OBVIOUS
  <1>0. TypeOK /\ TypeOK'
    BY TypeStep DEF IInv
  <1>1. ASSUME NEW e \in Events, Publish(e) PROVE IInv'
    BY <1>0, <1>1, PublishStep
  <1>2. ASSUME NEW u \in Users, Deactivate(u) PROVE IInv'
    <2>1. /\ inactive \subseteq inactive'
          /\ UNCHANGED <<row, notes, pc, claimed, todo, txRow, txNotes>>
      BY <1>2 DEF Deactivate, txVars
    <2>2. ImageDelivered' /\ SentMeansDelivered'
      BY <2>1 DEF IInv, ImageDelivered, SentMeansDelivered
    <2> QED
      BY <1>0, <2>1, <2>2
      DEF IInv, ClaimsScoped, ClaimsDisjoint, ClaimedOpen, BufferScoped, PairBound,
          ImageOutcome, NotificationsAreRecorded
  <1>3. CASE Tick
    BY <1>0, <1>3, TickStep
  <1>4. ASSUME NEW w \in Workers, AcquireLease(w) \/ SkipLease(w) PROVE IInv'
    <2>1. UNCHANGED <<row, notes, inactive, claimed, todo, txRow, txNotes>>
      BY <1>4 DEF AcquireLease, SkipLease, txVars
    <2>2. claimed[w] = {} /\ \A v \in Workers : v # w => pc'[v] = pc[v]
      BY <1>4 DEF AcquireLease, SkipLease, IInv, ClaimsScoped, TypeOK
    <2>3. ClaimsScoped'
      BY <2>1, <2>2 DEF IInv, ClaimsScoped
    <2> QED
      BY <1>0, <2>1, <2>3
      DEF IInv, ClaimsDisjoint, ClaimedOpen, BufferScoped, PairBound,
          ImageOutcome, ImageDelivered, SentMeansDelivered, NotificationsAreRecorded
  <1>5. ASSUME NEW w \in Workers, Fetch(w) PROVE IInv'
    BY <1>0, <1>5, FetchStep
  <1>6. ASSUME NEW w \in Workers, NEW e \in Events, NoHandler(w, e) PROVE IInv'
    <2> DEFINE r == UnhandledRow(row[e], w)
    <2>1. r \in Row /\ row[e] \in Row
      BY <1>0, RowTypes DEF TypeOK
    <2>2. r.status = "FAILED" /\ r.attempts > 0 /\ r.attempts >= row[e].attempts
      BY <2>1, BumpType DEF UnhandledRow, Row
    <2>3. txNotes' = Fanout(w, e, {})
      BY <1>0, <1>6, FanoutNobody DEF NoHandler
    <2> QED BY <1>0, <1>6, <2>1, <2>2, <2>3, ProcessStep DEF NoHandler
  <1>7. ASSUME NEW w \in Workers, NEW e \in Events, HandlerReturns(w, e) PROVE IInv'
    <2> DEFINE r == SentRow(row[e])
    <2>1. r \in Row /\ row[e] \in Row
      BY <1>0, RowTypes DEF TypeOK
    <2>2. r.status = "SENT" /\ r.attempts >= row[e].attempts
      BY <2>1, NumbersAssumption DEF SentRow, Row
    <2>3. Audience(e) \in SUBSET Users
      BY SetsAssumption DEF Audience
    <2> QED BY <1>0, <1>7, <2>1, <2>2, <2>3, ProcessStep DEF HandlerReturns
  <1>8. ASSUME NEW w \in Workers, NEW e \in Events, HandlerRaises(w, e) PROVE IInv'
    <2> DEFINE r == FailedRow(row[e])
    <2>1. r \in Row /\ row[e] \in Row
      BY <1>0, RowTypes DEF TypeOK
    <2>2. r.status = "FAILED" /\ r.attempts > 0 /\ r.attempts >= row[e].attempts
      BY <2>1, BumpType DEF FailedRow, Row
    <2>3. Audience(e) \in SUBSET Users
      BY SetsAssumption DEF Audience
    <2>4. PICK S \in SUBSET Audience(e) : txNotes' = Fanout(w, e, S)
      BY <1>8 DEF HandlerRaises
    <2>5. S \in SUBSET Users
      BY <2>3, <2>4
    <2> QED BY <1>0, <1>8, <2>1, <2>2, <2>4, <2>5, ProcessStep DEF HandlerRaises
  <1>9. ASSUME NEW w \in Workers, Commit(w) PROVE IInv'
    BY <1>0, <1>9, CommitStep
  <1>10. ASSUME NEW w \in Workers, PassFails(w) PROVE IInv'
    BY <1>0, <1>10, PassFailsStep
  <1>11. CASE UNCHANGED vars
    BY <1>0, <1>11
    DEF vars, IInv, ClaimsScoped, ClaimsDisjoint, ClaimedOpen, BufferScoped, PairBound,
        ImageOutcome, ImageDelivered, SentMeansDelivered, NotificationsAreRecorded
  <1> QED
    BY <1>1, <1>2, <1>3, <1>4, <1>5, <1>6, <1>7, <1>8, <1>9, <1>10, <1>11
    DEF Next, WorkerStep, Process

(* The inductive invariant holds in every reachable state.                 *)
THEOREM InductiveInvariant == Spec => []IInv
  <1>1. Init => IInv
    <2> SUFFICES ASSUME Init PROVE IInv
      OBVIOUS
    <2>1. TypeOK
      BY ConstantTypes, NumbersAssumption DEF Init, TypeOK
    <2>2. /\ \A e \in Events : row[e].status = "ABSENT"
          /\ \A e \in Events, u \in Users : notes[e][u] = 0
          /\ \A w \in Workers : claimed[w] = {} /\ todo[w] = {}
          /\ \A w \in Workers, e \in Events, u \in Users : txNotes[w][e][u] = 0
      BY DEF Init, NoRow, NoNotes
    <2> QED
      BY <2>1, <2>2
      DEF IInv, ClaimsScoped, ClaimsDisjoint, ClaimedOpen, BufferScoped, PairBound,
          ImageOutcome, ImageDelivered, SentMeansDelivered, NotificationsAreRecorded
  <1> QED BY <1>1, InductiveStep, PTL DEF Spec

-----------------------------------------------------------------------------
(* Theorems                                                                *)

(* No recipient is notified twice about one entity by InAppChannel.send,   *)
(* for any number of replicas, retries, crashes and Redis failures.        *)
THEOREM AtMostOnce == Spec => []AtMostOneNotification
  <1>1. IInv => AtMostOneNotification
    <2> SUFFICES ASSUME IInv, NEW e \in Events, NEW u \in Users
                 PROVE  notes[e][u] <= 1
      BY DEF AtMostOneNotification
    <2>1. PICK w \in Workers : TRUE
      BY SetsAssumption
    <2>2. notes[e][u] \in Nat /\ txNotes[w][e][u] \in Nat
      BY DEF IInv, TypeOK
    <2> QED BY <2>2 DEF IInv, PairBound
  <1> QED BY <1>1, InductiveInvariant, PTL

(* A SENT event has reached every recipient that still has an account.     *)
THEOREM SentIsDelivered == Spec => []SentMeansDelivered
  <1>1. IInv => SentMeansDelivered
    BY DEF IInv
  <1> QED BY <1>1, InductiveInvariant, PTL

(* Notifications and the attempt that made them become visible together.   *)
THEOREM NotificationsRecorded == Spec => []NotificationsAreRecorded
  <1>1. IInv => NotificationsAreRecorded
    BY DEF IInv
  <1> QED BY <1>1, InductiveInvariant, PTL

(* SKIP LOCKED keeps the passes of different replicas apart.               *)
THEOREM PassesApart == Spec => []ClaimsDisjoint
  <1>1. IInv => ClaimsDisjoint
    BY DEF IInv
  <1> QED BY <1>1, InductiveInvariant, PTL

(* How the committed rows may change in one step: by a domain commit, by   *)
(* the clock, or by the commit of the pass that has them locked.           *)
LEMMA CommittedRows ==
  ASSUME IInv, [Next]_vars
  PROVE  \/ \E e \in Events : Publish(e)
         \/ Tick
         \/ \E w \in Workers : Commit(w)
         \/ UNCHANGED <<row, notes>>
  BY DEF Next, vars, WorkerStep, Process, Deactivate, AcquireLease, SkipLease, Fetch,
         NoHandler, HandlerReturns, HandlerRaises, Processed, PassFails, txVars

(* A SENT row, a notification and a counted attempt are never undone.      *)
THEOREM CommitsAreFinal == Spec => NothingUndone
  <1> DEFINE Kept ==
        /\ \A e \in Events : row[e].status = "SENT" => row'[e].status = "SENT"
        /\ \A e \in Events : row[e].status # "ABSENT" => row'[e].attempts >= row[e].attempts
        /\ \A e \in Events, u \in Users : notes'[e][u] >= notes[e][u]
  <1>1. IInv /\ [Next]_vars => [Kept]_<<row, notes>>
    <2> SUFFICES ASSUME IInv, [Next]_vars, ~(UNCHANGED <<row, notes>>) PROVE Kept
      OBVIOUS
    <2>0. /\ \A e \in Events : row[e].attempts \in Int
          /\ \A e \in Events, u \in Users : notes[e][u] \in Nat
      BY NumbersAssumption DEF IInv, TypeOK, Row
    <2>1. ASSUME NEW e \in Events, Publish(e) PROVE Kept
      <3>1. row[e].status = "ABSENT" /\ \A f \in Events : f # e => row'[f] = row[f]
        BY <2>1 DEF Publish, IInv, TypeOK
      <3>2. notes' = notes
        BY <2>1 DEF Publish
      <3> QED BY <2>0, <3>1, <3>2
    <2>2. CASE Tick
      <3>1. \A f \in Events : row'[f].status = row[f].status /\ row'[f].attempts = row[f].attempts
        BY <2>2 DEF Tick, Elapse, IInv, TypeOK, Row
      <3>2. notes' = notes
        BY <2>2 DEF Tick
      <3> QED BY <2>0, <3>1, <3>2
    <2>3. ASSUME NEW w \in Workers, Commit(w) PROVE Kept
      <3>1. /\ todo[w] = {}
            /\ \A e \in Events : row'[e] = IF e \in claimed[w] THEN txRow[w][e] ELSE row[e]
            /\ \A e \in Events, u \in Users : notes'[e][u] = notes[e][u] + txNotes[w][e][u]
        BY <2>3 DEF Commit
      <3>2. \A e \in claimed[w] : row[e].status # "SENT" /\ txRow[w][e].attempts >= row[e].attempts
        BY <3>1 DEF IInv, ClaimedOpen, ImageOutcome
      <3>3. \A e \in Events, u \in Users : txNotes[w][e][u] \in Nat
        BY DEF IInv, TypeOK
      <3> QED BY <2>0, <3>1, <3>2, <3>3
    <2> QED BY <2>1, <2>2, <2>3, CommittedRows
  <1> QED BY <1>1, InductiveInvariant, PTL DEF Spec, NothingUndone

(* A commit is one delivery of the abstract outbox: it fills the slots of  *)
(* its buffer and finishes the events whose image is SENT.                 *)
LEMMA CommitDelivers ==
  ASSUME IInv, TypeOK', NEW w \in Workers, Commit(w)
  PROVE  Delivery!Deliver
  <1> DEFINE filled == [e \in Events |-> {u \in Users : txNotes[w][e][u] # 0}]
             done == {e \in claimed[w] : txRow[w][e].status = "SENT"}
             published == {e \in Events : row[e].status # "ABSENT"}
             sent == {e \in Events : row[e].status = "SENT"}
  <1>0. /\ todo[w] = {} /\ claimed[w] \subseteq Events
        /\ UNCHANGED inactive
        /\ row' = [e \in Events |-> IF e \in claimed[w] THEN txRow[w][e] ELSE row[e]]
        /\ notes' = [e \in Events |-> [u \in Users |-> notes[e][u] + txNotes[w][e][u]]]
    BY DEF Commit, EndPass, IInv, TypeOK
  <1>1. \A e \in Events, u \in Users : /\ notes[e][u] \in Nat /\ txNotes[w][e][u] \in Nat
                                       /\ notes[e][u] + txNotes[w][e][u] <= 1
    BY DEF IInv, TypeOK, PairBound
  <1>2. claimed[w] \subseteq published \ sent
    BY <1>0 DEF IInv, ClaimedOpen
  <1>3. filled \in [Events -> SUBSET Users] /\ done \in SUBSET (published \ sent)
    BY <1>2
  <1>4. \A e \in Events : filled[e] # {} => e \in published \ sent
    BY <1>2 DEF IInv, BufferScoped
  <1>5. \A e \in Events : \A u \in filled[e] : notes[e][u] = 0
    BY <1>1
  <1>6. notes' = [e \in Events |-> [u \in Users |->
                   IF u \in filled[e] THEN 1 ELSE notes[e][u]]]
    <2>1. \A e \in Events, u \in Users :
            notes[e][u] + txNotes[w][e][u] = IF u \in filled[e] THEN 1 ELSE notes[e][u]
      BY <1>1
    <2> HIDE DEF filled
    <2> QED BY <1>0, <2>1
  <1>7. \A e \in done : \A u \in Recipients[e] \ inactive : notes'[e][u] = 1
    <2> SUFFICES ASSUME NEW e \in done, NEW u \in Recipients[e] \ inactive
                 PROVE  notes'[e][u] = 1
      OBVIOUS
    <2>1. e \in Events /\ u \in Users
      BY <1>0, SetsAssumption
    <2>2. notes[e][u] + txNotes[w][e][u] >= 1
      BY <1>0 DEF IInv, ImageDelivered
    <2> QED BY <1>0, <1>1, <2>1, <2>2
  <1>8. {e \in Events : row'[e].status = "SENT"} = sent \cup done
    BY <1>0, <1>2
  <1>9. {e \in Events : row'[e].status # "ABSENT"} = published
    BY <1>0, <1>2 DEF IInv, ImageOutcome
  <1> HIDE DEF filled, done
  <1> QED BY <1>0, <1>3, <1>4, <1>5, <1>6, <1>7, <1>8, <1>9 DEF Delivery!Deliver

(* The dispatcher implements what the outbox promises.                     *)
THEOREM Refinement == Spec => ImplementsDelivery
  <1>1. Init => Delivery!DInit
    <2> SUFFICES ASSUME Init PROVE Delivery!DInit
      OBVIOUS
    <2>1. \A e \in Events : row[e].status = "ABSENT"
      BY DEF Init, NoRow
    <2> QED BY <2>1 DEF Init, NoNotes, Delivery!DInit
  <1>2. IInv /\ [Next]_vars => [Delivery!DNext]_(Delivery!dvars)
    <2> SUFFICES ASSUME IInv, [Next]_vars PROVE [Delivery!DNext]_(Delivery!dvars)
      OBVIOUS
    <2>0. TypeOK /\ TypeOK'
      BY TypeStep DEF IInv
    <2>1. ASSUME NEW e \in Events, Publish(e) PROVE Delivery!DNext
      <3>1. /\ row[e].status = "ABSENT" /\ row'[e].status = "PENDING"
            /\ \A f \in Events : f # e => row'[f] = row[f]
            /\ UNCHANGED <<notes, inactive>>
        BY <2>0, <2>1 DEF Publish, TypeOK, NewRow, NoRow
      <3>2. Delivery!DPublish(e)
        BY <3>1 DEF Delivery!DPublish
      <3> QED BY <3>2 DEF Delivery!DNext
    <2>2. ASSUME NEW u \in Users, Deactivate(u) PROVE Delivery!DNext
      <3>1. Delivery!DDeactivate(u)
        BY <2>2 DEF Deactivate, txVars, Delivery!DDeactivate
      <3> QED BY <3>1 DEF Delivery!DNext
    <2>3. CASE Tick
      <3>1. \A f \in Events : row'[f].status = row[f].status
        BY <2>0, <2>3 DEF Tick, Elapse, TypeOK, Row
      <3> QED BY <2>3, <3>1 DEF Tick, Delivery!dvars
    <2>4. ASSUME NEW w \in Workers, Commit(w) PROVE Delivery!DNext
      BY <2>0, <2>4, CommitDelivers DEF Delivery!DNext
    <2>5. CASE UNCHANGED <<row, notes, inactive>>
      BY <2>5 DEF Delivery!dvars
    <2>6. \/ \E e \in Events : Publish(e)
          \/ \E u \in Users : Deactivate(u)
          \/ Tick
          \/ \E w \in Workers : Commit(w)
          \/ UNCHANGED <<row, notes, inactive>>
      BY DEF Next, vars, WorkerStep, Process, AcquireLease, SkipLease, Fetch,
             NoHandler, HandlerReturns, HandlerRaises, Processed, PassFails, EndPass, txVars
    <2> QED BY <2>1, <2>2, <2>3, <2>4, <2>5, <2>6
  <1> QED BY <1>1, <1>2, InductiveInvariant, PTL DEF Spec, ImplementsDelivery, Delivery!DSpec

=============================================================================
