------------------------ MODULE NotificationDelivery ------------------------
(***************************************************************************)
(* What the outbox promises to the rest of School OS: every event written  *)
(* with a domain change is fanned out to the in-app inbox of its           *)
(* recipients, each recipient gets at most one notification per event, and *)
(* an event is finished only when every recipient that still has an active *)
(* account has one.  Nothing is said here about workers, locks, retries or *)
(* transactions: OutboxDispatcher is shown to implement this module.       *)
(***************************************************************************)
EXTENDS Naturals

CONSTANTS Events,      \* rows of outbox_events
          Users,       \* rows of users
          Recipients   \* Recipients[e]: whom the handler of e addresses

VARIABLES published,   \* events committed by a domain transaction
          sent,        \* events finished
          inbox,       \* inbox[e][u]: notification rows of user u about e
          inactive     \* users deactivated or soft-deleted so far

dvars == <<published, sent, inbox, inactive>>

DInit ==
  /\ published = {}
  /\ sent = {}
  /\ inbox = [e \in Events |-> [u \in Users |-> 0]]
  /\ inactive = {}

(* A domain transaction commits together with its event. *)
DPublish(e) ==
  /\ e \in Events \ published
  /\ published' = published \cup {e}
  /\ UNCHANGED <<sent, inbox, inactive>>

(* An account is deactivated; it is no longer a recipient of later passes. *)
DDeactivate(u) ==
  /\ inactive' = inactive \cup {u}
  /\ UNCHANGED <<published, sent, inbox>>

(* One atomic delivery: empty inbox slots of open events are filled, and   *)
(* events all of whose active recipients are served may be finished.       *)
Deliver ==
  \E filled \in [Events -> SUBSET Users], done \in SUBSET (published \ sent) :
    /\ \A e \in Events : filled[e] # {} => e \in published \ sent
    /\ \A e \in Events : \A u \in filled[e] : inbox[e][u] = 0
    /\ inbox' = [e \in Events |-> [u \in Users |->
                   IF u \in filled[e] THEN 1 ELSE inbox[e][u]]]
    /\ \A e \in done : \A u \in Recipients[e] \ inactive : inbox'[e][u] = 1
    /\ sent' = sent \cup done
    /\ UNCHANGED <<published, inactive>>

DNext ==
  \/ \E e \in Events : DPublish(e)
  \/ \E u \in Users : DDeactivate(u)
  \/ Deliver

DSpec == DInit /\ [][DNext]_dvars

=============================================================================
