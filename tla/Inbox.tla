------------------------------- MODULE Inbox --------------------------------
(***************************************************************************)
(* What the session manager promises about the events triggers hand it,    *)
(* whatever queue they pass through: an accepted event waits until it is   *)
(* chosen for the conversation, once; a priority event is chosen before    *)
(* any other; the others are chosen in the order they came.  Only a        *)
(* closing or dying process may leave events behind.                       *)
(***************************************************************************)
EXTENDS Naturals, Sequences, SequencesExt

CONSTANTS
  Event,      (* the events triggers may submit                  *)
  Priority    (* those submitted with the priority option        *)

VARIABLES
  arrived,    (* the events this process accepted, oldest first  *)
  waiting,    (* those not chosen yet                            *)
  closing     (* the process was told to shut down               *)

inboxVars == <<arrived, waiting, closing>>

InboxInit == arrived = <<>> /\ waiting = {} /\ closing = FALSE

Earlier(f, e) ==
  \E i, j \in DOMAIN arrived : i < j /\ arrived[i] = f /\ arrived[j] = e

(* e may be chosen next.                                                    *)
IsNext(e) ==
  \/ e \in Priority
  \/ \A f \in waiting : f \notin Priority /\ ~Earlier(f, e)

Arrive(e) ==
  /\ e \notin ToSet(arrived)
  /\ arrived' = Append(arrived, e)
  /\ UNCHANGED closing

Accept(e) == Arrive(e) /\ waiting' = waiting \cup {e}

(* An event that finds nothing waiting may be chosen as it arrives.         *)
AcceptAndTake(e) == Arrive(e) /\ (waiting = {} \/ closing) /\ UNCHANGED waiting

Take(e) ==
  /\ e \in waiting
  /\ closing \/ IsNext(e)
  /\ waiting' = waiting \ {e}
  /\ UNCHANGED <<arrived, closing>>

Close == ~closing /\ closing' = TRUE /\ UNCHANGED <<arrived, waiting>>

Drop == closing /\ waiting' \in SUBSET waiting /\ UNCHANGED <<arrived, closing>>

NewProcess == arrived' = <<>> /\ waiting' = {} /\ closing' = FALSE

InboxNext ==
  \/ \E e \in Event : Accept(e) \/ AcceptAndTake(e) \/ Take(e)
  \/ Close \/ Drop \/ NewProcess

InboxSpec == InboxInit /\ [][InboxNext]_inboxVars

=============================================================================
