-------------------------- MODULE OutboxDispatcher --------------------------
(***************************************************************************)
(* The transactional outbox of School OS and its dispatcher workers:       *)
(*   app/modules/platform_/outbox/service.py   publish                     *)
(*   app/workers/outbox_dispatcher.py          run_once, _process_event    *)
(*   app/workers/handlers.py, channels.py      fan-out, InAppChannel.send  *)
(*                                                                         *)
(* Every pass of a worker is ONE database transaction: the rows it claims  *)
(* stay locked (FOR UPDATE SKIP LOCKED) and everything it writes stays in  *)
(* its private buffer (txRow, txNotes) until the commit that ends the      *)
(* pass.  Time is counted in ticks; next_attempt_at is the number of ticks *)
(* left until the event is due again, None is SQL NULL.                    *)
(***************************************************************************)
EXTENDS Integers, FiniteSets

CONSTANTS
  Events,           \* outbox_events rows, numbered by created_at
  Workers,          \* dispatcher replicas
  Users,            \* potential recipients
  Recipients,       \* Recipients[e]: users the handler of e resolves
  Handled,          \* events whose event_name has an entry in HANDLERS
  Poison,           \* events whose handler raises on every attempt
  BatchSize,        \* settings.outbox_batch_size
  MaxAttempts,      \* settings.outbox_max_attempts
  AttemptCap,       \* bound: the attempts counter saturates here; None: never
  BackoffBase,      \* _BACKOFF_BASE_SECONDS in ticks
  BackoffCap,       \* _BACKOFF_CAP_SECONDS in ticks
  LockTTL,          \* LOCK_TTL_MS in ticks
  RedisConfigured,  \* whether get_redis_client() returns a client
  MaxFaults,        \* bound: crashes, database errors, transient handler errors
  None              \* SQL NULL

ASSUME SetsAssumption ==
  /\ Events \subseteq Nat
  /\ IsFiniteSet(Events)
  /\ Workers # {}
  /\ Recipients \in [Events -> SUBSET Users]
  /\ Handled \subseteq Events
  /\ Poison \subseteq Handled
ASSUME NumbersAssumption ==
  /\ BatchSize \in Nat \ {0}
  /\ MaxAttempts \in Nat \ {0}
  /\ AttemptCap = None \/ (AttemptCap \in Nat /\ AttemptCap >= MaxAttempts)
  /\ BackoffBase \in Nat \ {0} /\ BackoffCap \in Nat
  /\ LockTTL \in Nat \ {0}
  /\ RedisConfigured \in BOOLEAN
  /\ MaxFaults \in Nat
ASSUME NoneAssumption == None \notin Int /\ None \notin Workers

VARIABLES
  row,       \* committed outbox_events rows
  notes,     \* notes[e][u]: committed notification rows of u about e's entity
  inactive,  \* users deactivated, soft-deleted or whose membership ended
  lease,     \* ticks left of the Redis leader key, 0: the key is absent
  pc,        \* worker: "sleep", "fetch" or "process"
  claimed,   \* rows locked by the worker's open transaction
  todo,      \* claimed rows that the pass has not processed yet
  txRow,     \* uncommitted row images of the worker's transaction
  txNotes,   \* uncommitted notification inserts of the worker's transaction
  faults     \* faults injected so far

txVars == <<claimed, todo, txRow, txNotes>>
vars == <<row, notes, inactive, lease, pc, claimed, todo, txRow, txNotes, faults>>

-----------------------------------------------------------------------------
(* Rows                                                                    *)

Status == {"ABSENT", "PENDING", "FAILED", "SENT"}
Row == [status: Status, attempts: Nat, next: Int \cup {None},
        locked_by: Workers \cup {None}]

NoRow == [status |-> "ABSENT", attempts |-> 0, next |-> None, locked_by |-> None]
NewRow == [NoRow EXCEPT !.status = "PENDING"]
NoNotes == [e \in Events |-> [u \in Users |-> 0]]

(* _backoff_delay(attempts) *)
Backoff(attempts) ==
  LET delay == BackoffBase * 2^(IF attempts > 1 THEN attempts - 1 ELSE 0)
  IN  IF delay < BackoffCap THEN delay ELSE BackoffCap

(* event.attempts += 1; in the code nothing ends it. *)
Bump(attempts) == IF attempts = AttemptCap THEN attempts ELSE attempts + 1

(* Faulty variant: rows of every status match. *)
DueAnyStatus(r) == /\ r.status # "ABSENT"
                   /\ r.next = None \/ r.next <= 0

(* Faulty variant: next_attempt_at <= now() alone, which NULL never meets. *)
DueDated(r) == /\ r.status \in {"PENDING", "FAILED"}
               /\ r.next # None /\ r.next <= 0

(* The WHERE clause of _fetch_due_events *)
Due(r) == /\ r.status \in {"PENDING", "FAILED"}
          /\ r.next = None \/ r.next <= 0

(* The n oldest rows of S: ORDER BY created_at LIMIT n *)
Oldest(S, n) == {e \in S : Cardinality({f \in S : f < e}) < n}

(* The event the for loop of run_once takes next *)
IsNext(w, e) == e \in todo[w] /\ \A f \in todo[w] : e <= f

(* Row images written by _process_event *)
SentRow(r) == [r EXCEPT !.status = "SENT", !.locked_by = None]

UnhandledRow(r, w) ==
  [r EXCEPT !.status = "FAILED", !.attempts = Bump(r.attempts),
            !.next = Backoff(Bump(r.attempts)), !.locked_by = w]

FailedRow(r) ==
  [r EXCEPT !.status = "FAILED", !.attempts = Bump(r.attempts), !.locked_by = None,
            !.next = IF Bump(r.attempts) >= MaxAttempts
                       THEN None ELSE Backoff(Bump(r.attempts))]

-----------------------------------------------------------------------------
(* Fan-out                                                                 *)

(* Recipient queries of the handlers: active accounts only *)
Audience(e) == Recipients[e] \ inactive

(* Faulty variant: a lookup that forgets user_id *)
SeenByAnyone(w, e, u) == \E v \in Users : notes[e][v] + txNotes[w][e][v] > 0

(* The SELECT of InAppChannel.send: committed rows and the worker's own *)
Seen(w, e, u) == notes[e][u] + txNotes[w][e][u] > 0

(* channels.broadcast to each user of S in turn *)
Fanout(w, e, S) ==
  [txNotes EXCEPT ![w][e] =
     [u \in Users |-> IF u \in S /\ ~Seen(w, e, u) THEN txNotes[w][e][u] + 1
                                                   ELSE txNotes[w][e][u]]]

-----------------------------------------------------------------------------
Init ==
  /\ row = [e \in Events |-> NoRow]
  /\ notes = NoNotes
  /\ inactive = {}
  /\ lease = 0
  /\ pc = [w \in Workers |-> "sleep"]
  /\ claimed = [w \in Workers |-> {}]
  /\ todo = [w \in Workers |-> {}]
  /\ txRow = [w \in Workers |-> [e \in Events |-> NoRow]]
  /\ txNotes = [w \in Workers |-> NoNotes]
  /\ faults = 0

(* A domain transaction that called outbox publish() commits. *)
Publish(e) ==
  /\ row[e].status = "ABSENT"
  /\ row' = [row EXCEPT ![e] = NewRow]
  /\ UNCHANGED <<notes, inactive, lease, pc, txVars, faults>>

(* A user is deactivated or deleted while events are in flight. *)
Deactivate(u) ==
  /\ u \notin inactive
  /\ inactive' = inactive \cup {u}
  /\ UNCHANGED <<row, notes, lease, pc, txVars, faults>>

Elapse(r) == IF r.next # None /\ r.next > 0 THEN [r EXCEPT !.next = r.next - 1] ELSE r

(* Time passes: backoff delays and the leader key's TTL run down. *)
Tick ==
  /\ row' = [e \in Events |-> Elapse(row[e])]
  /\ txRow' = [w \in Workers |-> [e \in Events |-> Elapse(txRow[w][e])]]
  /\ lease' = IF lease > 0 THEN lease - 1 ELSE 0
  /\ UNCHANGED <<notes, inactive, pc, claimed, todo, txNotes, faults>>

(* _acquire_redis_lock: SET NX PX.  The key is never deleted afterwards. *)
AcquireLease(w) ==
  /\ pc[w] = "sleep"
  /\ RedisConfigured /\ lease = 0
  /\ lease' = LockTTL
  /\ pc' = [pc EXCEPT ![w] = "fetch"]
  /\ UNCHANGED <<row, notes, inactive, txVars, faults>>

(* _acquire_redis_lock: no client, or the call to Redis raises. *)
SkipLease(w) ==
  /\ pc[w] = "sleep"
  /\ pc' = [pc EXCEPT ![w] = "fetch"]
  /\ IF RedisConfigured
       THEN faults < MaxFaults /\ faults' = faults + 1
       ELSE UNCHANGED faults
  /\ UNCHANGED <<row, notes, inactive, lease, txVars>>

(* Faulty variant: the rows are read without FOR UPDATE SKIP LOCKED. *)
FetchUnlocked(w) ==
  /\ pc[w] = "fetch"
  /\ LET due == {e \in Events : Due(row[e])}
     IN  /\ claimed' = [claimed EXCEPT ![w] = Oldest(due, BatchSize)]
         /\ todo' = [todo EXCEPT ![w] = Oldest(due, BatchSize)]
  /\ pc' = [pc EXCEPT ![w] = "process"]
  /\ UNCHANGED <<row, notes, inactive, lease, txRow, txNotes, faults>>

(* _fetch_due_events in a new transaction *)
Fetch(w) ==
  /\ pc[w] = "fetch"
  /\ LET free == {e \in Events : /\ Due(row[e])
                                 /\ \A v \in Workers : e \notin claimed[v]}
     IN  /\ claimed' = [claimed EXCEPT ![w] = Oldest(free, BatchSize)]
         /\ todo' = [todo EXCEPT ![w] = Oldest(free, BatchSize)]
  /\ pc' = [pc EXCEPT ![w] = "process"]
  /\ UNCHANGED <<row, notes, inactive, lease, txRow, txNotes, faults>>

(* What every branch of _process_event does with its event *)
Processed(w, e, r) ==
  /\ txRow' = [txRow EXCEPT ![w][e] = r]
  /\ todo' = [todo EXCEPT ![w] = @ \ {e}]
  /\ UNCHANGED <<row, notes, inactive, lease, pc, claimed>>

(* _process_event: no handler is registered for the event's name. *)
NoHandler(w, e) ==
  /\ pc[w] = "process" /\ IsNext(w, e)
  /\ e \notin Handled
  /\ Processed(w, e, UnhandledRow(row[e], w))
  /\ UNCHANGED <<txNotes, faults>>

(* _process_event: the handler returns. *)
HandlerReturns(w, e) ==
  /\ pc[w] = "process" /\ IsNext(w, e)
  /\ e \in Handled \ Poison
  /\ txNotes' = Fanout(w, e, Audience(e))
  /\ Processed(w, e, SentRow(row[e]))
  /\ UNCHANGED faults

(* _process_event: the handler raises after it has served some recipients. *)
(* What it inserted before stays in the transaction: there is no savepoint. *)
HandlerRaises(w, e) ==
  /\ pc[w] = "process" /\ IsNext(w, e)
  /\ e \in Handled
  /\ IF e \in Poison THEN UNCHANGED faults
                     ELSE faults < MaxFaults /\ faults' = faults + 1
  /\ \E served \in SUBSET Audience(e) : txNotes' = Fanout(w, e, served)
  /\ Processed(w, e, FailedRow(row[e]))

(* The worker's transaction is over and its buffer is gone. *)
EndPass(w) ==
  /\ pc' = [pc EXCEPT ![w] = "sleep"]
  /\ claimed' = [claimed EXCEPT ![w] = {}]
  /\ todo' = [todo EXCEPT ![w] = {}]
  /\ txRow' = [txRow EXCEPT ![w] = [e \in Events |-> NoRow]]
  /\ txNotes' = [txNotes EXCEPT ![w] = NoNotes]
  /\ UNCHANGED <<inactive, lease>>

(* run_once leaves session.begin(): rows and notifications together *)
Commit(w) ==
  /\ pc[w] = "process" /\ todo[w] = {}
  /\ row' = [e \in Events |-> IF e \in claimed[w] THEN txRow[w][e] ELSE row[e]]
  /\ notes' = [e \in Events |-> [u \in Users |-> notes[e][u] + txNotes[w][e][u]]]
  /\ EndPass(w)
  /\ UNCHANGED faults

(* Faulty variant: the notifications were committed on their own. *)
PassFailsLeaky(w) ==
  /\ pc[w] \in {"fetch", "process"}
  /\ faults < MaxFaults
  /\ faults' = faults + 1
  /\ EndPass(w)
  /\ notes' = [e \in Events |-> [u \in Users |-> notes[e][u] + txNotes[w][e][u]]]
  /\ UNCHANGED row

(* The pass is rolled back: the worker or its connection dies, or a        *)
(* database error leaves the session unusable and run_forever logs it.     *)
PassFails(w) ==
  /\ pc[w] \in {"fetch", "process"}
  /\ faults < MaxFaults
  /\ faults' = faults + 1
  /\ EndPass(w)
  /\ UNCHANGED <<row, notes>>

Process(w, e) == NoHandler(w, e) \/ HandlerReturns(w, e) \/ HandlerRaises(w, e)

WorkerStep(w) ==
  \/ AcquireLease(w)
  \/ SkipLease(w)
  \/ Fetch(w)
  \/ \E e \in Events : Process(w, e)
  \/ Commit(w)
  \/ PassFails(w)

Next ==
  \/ \E e \in Events : Publish(e)
  \/ \E u \in Users : Deactivate(u)
  \/ Tick
  \/ \E w \in Workers : WorkerStep(w)

Spec == Init /\ [][Next]_vars

(* run_forever polls again and again, and the clock runs.  A faultless     *)
(* step that stays possible is taken: nothing is assumed of faults,        *)
(* publishers or accounts.                                                 *)
Fairness ==
  /\ WF_vars(Tick)
  /\ \A w \in Workers :
       /\ WF_vars(AcquireLease(w) \/ (~RedisConfigured /\ SkipLease(w)))
       /\ WF_vars(Fetch(w))
       /\ WF_vars(\E e \in Events : Process(w, e))
       /\ WF_vars(Commit(w))

FairSpec == Spec /\ Fairness

-----------------------------------------------------------------------------
(* Properties                                                              *)

(* A row that is FAILED has counted an attempt.  It is due again after at  *)
(* most _BACKOFF_CAP_SECONDS, or it is a dead letter, which has used up    *)
(* outbox_max_attempts.                                                    *)
Counted(r) ==
  r.status = "FAILED" =>
    /\ r.attempts > 0
    /\ IF r.next = None THEN r.attempts >= MaxAttempts ELSE r.next <= BackoffCap

(* The workers and their buffers are well formed, and so is every row that *)
(* is committed or about to be.                                            *)
TypeOK ==
  /\ row \in [Events -> Row]
  /\ \A e \in Events : Counted(row[e]) /\ \A w \in Workers : Counted(txRow[w][e])
  /\ notes \in [Events -> [Users -> Nat]]
  /\ inactive \subseteq Users
  /\ lease \in 0..LockTTL
  /\ pc \in [Workers -> {"sleep", "fetch", "process"}]
  /\ claimed \in [Workers -> SUBSET Events]
  /\ todo \in [Workers -> SUBSET Events]
  /\ txRow \in [Workers -> [Events -> Row]]
  /\ txNotes \in [Workers -> [Events -> [Users -> Nat]]]
  /\ faults \in 0..MaxFaults

(* No recipient is notified twice about the same entity, whatever crashes, *)
(* retries and concurrent replicas do: the row locks of _fetch_due_events  *)
(* and the lookup in InAppChannel.send stand in for a unique index that    *)
(* the notifications table does not have.                                  *)
AtMostOneNotification ==
  \A e \in Events, u \in Users : notes[e][u] <= 1

(* An event that is SENT has reached every recipient with an active        *)
(* account: the notifications of earlier, failed attempts count, those of  *)
(* rolled back passes do not.                                              *)
SentMeansDelivered ==
  \A e \in Events : row[e].status = "SENT" =>
    \A u \in Recipients[e] \ inactive : notes[e][u] >= 1

(* A notification never outlives the pass that made it: whenever one is    *)
(* visible, the outbox row records the attempt in the same commit, as SENT *)
(* or as a FAILED attempt that is counted.                                 *)
NotificationsAreRecorded ==
  \A e \in Events, u \in Users : notes[e][u] > 0 =>
    \/ row[e].status = "SENT"
    \/ row[e].status = "FAILED" /\ row[e].attempts > 0

(* Two replicas never hold the same event, with or without the leader key: *)
(* SKIP LOCKED alone keeps concurrent passes apart.                        *)
ClaimsDisjoint ==
  \A v, w \in Workers : v # w => claimed[v] \cap claimed[w] = {}

(* What is committed is never undone: a SENT row stays as it is, a         *)
(* notification is never withdrawn, and no failed attempt is forgotten (no *)
(* worker writes a row image computed from a stale read).                  *)
NothingUndone ==
  [][/\ \A e \in Events : row[e].status = "SENT" => row'[e].status = "SENT"
     /\ \A e \in Events : row[e].status # "ABSENT" => row'[e].attempts >= row[e].attempts
     /\ \A e \in Events, u \in Users : notes'[e][u] >= notes[e][u]]_<<row, notes>>

(* "Delivery is at-least-once": a published event whose handler can        *)
(* succeed is eventually SENT, although workers crash, Redis fails and     *)
(* other events keep failing.                                              *)
HealthyDelivered ==
  \A e \in Handled \ Poison :
    row[e].status = "PENDING" ~> row[e].status = "SENT"

(* The workers implement the outbox's promise to the rest of the system.   *)
Delivery == INSTANCE NotificationDelivery WITH
  published <- {e \in Events : row[e].status # "ABSENT"},
  sent <- {e \in Events : row[e].status = "SENT"},
  inbox <- notes

ImplementsDelivery == Delivery!DSpec

=============================================================================
