------------------------------ MODULE NuaStack ------------------------------
(***************************************************************************)
(* The sofia-sip NUA stack as svd uses it: an INVITE session per operation *)
(* handle (nua_handle_t) and one FIFO of events towards svd_nua_callback.  *)
(* The stack is a task of its own: the peer moves a session on whether or  *)
(* not the program has handled the events already queued, so every command *)
(* of the program may cross an event on its way.  The stack is not part of *)
(* src/; this module holds only what src/svd/svd/src/svd_ua.c relies on.   *)
(*                                                                         *)
(* Handles are never reused, so the size of Handle bounds the number of    *)
(* calls of a behaviour; MaxEvents bounds the queue.                       *)
(***************************************************************************)
EXTENDS Naturals, Sequences

CONSTANTS Handle,      \* the operation handles, one per call
          MaxEvents,   \* bound: events waiting for svd_nua_callback
          EarlyEnd,    \* may an unanswered INVITE end without a CANCEL?
          ReInvites    \* may the peer send an INVITE inside a call?

ASSUME StackAssumption ==
  /\ MaxEvents \in Nat
  /\ EarlyEnd \in BOOLEAN
  /\ ReInvites \in BOOLEAN

VARIABLES stack,   \* stack[h]: the state of h's INVITE session in the stack
          events   \* queue of [h, ev]: events svd_nua_callback has not seen

stackVars == <<stack, events>>

StackState == {"free",            \* the handle does not exist yet
               "received",        \* incoming INVITE, no final response sent
               "calling", "authenticating", "proceeding",  \* outgoing INVITE
               "completing",      \* 2XX received, no ACK sent
               "completed",       \* 2XX sent, or ACK on its way
               "ready",           \* both sides agree on the call
               "terminating",     \* BYE, CANCEL or an error response sent
               "terminated",      \* the session is over
               "destroyed"}       \* nua_handle_destroy was called

\* nua_event_t with, for nua_i_state, the call state, and for nua_r_invite,
\* the class of the status.  Events svd only logs are left out.
EventKind == {"i_invite", "i_cancel", "i_prack",
              "received", "proceeding", "completing", "ready", "terminated",
              "r_invite_auth", "r_invite_busy"}

Event == [h : Handle, ev : EventKind]

StackTypeOK ==
  /\ stack \in [Handle -> StackState]
  /\ events \in Seq(Event)

StackInit ==
  /\ stack = [h \in Handle |-> "free"]
  /\ events = << >>

(***************************************************************************)
(* Commands of the program.  Each is the new value of stack.  A command    *)
(* that finds the session past the point where it applies has no effect.   *)
(***************************************************************************)
Move(h, from, to) ==
  IF stack[h] \in from THEN [stack EXCEPT ![h] = to] ELSE stack

Live == {"received", "calling", "authenticating", "proceeding",
         "completing", "completed", "ready"}

nua_respond_ok(h)    == Move(h, {"received"}, "completed")
nua_respond_error(h) == Move(h, {"received"}, "terminating")
nua_ack(h)           == Move(h, {"completing"}, "completed")
nua_authenticate(h)  == Move(h, {"authenticating"}, "calling")
nua_bye(h)           == Move(h, Live, "terminating")
nua_invite(h)        == Move(h, {"free"}, "calling")
nua_handle_destroy(h) == [stack EXCEPT ![h] = "destroyed"]

(***************************************************************************)
(* What the peer and the stack do on their own.                            *)
(***************************************************************************)
Note(h, ev) == [h |-> h, ev |-> ev]

Step(h, from, to, evs) ==
  /\ stack[h] \in from
  /\ Len(events) + Len(evs) <= MaxEvents
  /\ stack' = [stack EXCEPT ![h] = to]
  /\ events' = events \o evs

PeerInvites(h) ==
  Step(h, {"free"}, "received", <<Note(h, "i_invite"), Note(h, "received")>>)

PeerCancels(h) ==
  Step(h, {"received"}, "terminated",
       <<Note(h, "i_cancel"), Note(h, "terminated")>>)

\* A PRACK for a provisional response of ours.
PeerPracks(h) == Step(h, {"received"}, "received", <<Note(h, "i_prack")>>)

\* An unanswered INVITE ends without CANCEL: an early BYE, a transport error.
PeerGivesUp(h) ==
  EarlyEnd /\ Step(h, {"received"}, "terminated", <<Note(h, "terminated")>>)

PeerChallenges(h) ==
  Step(h, {"calling"}, "authenticating", <<Note(h, "r_invite_auth")>>)

PeerRings(h) ==
  Step(h, {"calling"}, "proceeding", <<Note(h, "proceeding")>>)

\* The stack acknowledges the answer itself or leaves that to the program.
PeerAnswers(h) ==
  \/ Step(h, {"calling", "proceeding"}, "ready", <<Note(h, "ready")>>)
  \/ Step(h, {"calling", "proceeding"}, "completing", <<Note(h, "completing")>>)

PeerIsBusy(h) ==
  Step(h, {"calling", "proceeding"}, "terminated",
       <<Note(h, "r_invite_busy"), Note(h, "terminated")>>)

PeerRefuses(h) ==
  Step(h, {"calling", "proceeding"}, "terminated", <<Note(h, "terminated")>>)

CallIsReady(h) == Step(h, {"completed"}, "ready", <<Note(h, "ready")>>)

PeerHangsUp(h) ==
  Step(h, {"completing", "completed", "ready"}, "terminated",
       <<Note(h, "terminated")>>)

\* An INVITE inside the call; the stack answers it and reports it.
PeerReInvites(h) ==
  /\ ReInvites
  /\ Step(h, {"ready"}, "ready", <<Note(h, "i_invite"), Note(h, "ready")>>)

EndIsConfirmed(h) ==
  Step(h, {"terminating"}, "terminated", <<Note(h, "terminated")>>)

PeerStep(h) ==
  \/ PeerInvites(h)    \/ PeerCancels(h) \/ PeerPracks(h)  \/ PeerGivesUp(h)
  \/ PeerChallenges(h) \/ PeerRings(h)   \/ PeerAnswers(h) \/ PeerIsBusy(h)
  \/ PeerRefuses(h)    \/ CallIsReady(h) \/ PeerHangsUp(h)
  \/ PeerReInvites(h)  \/ EndIsConfirmed(h)
=============================================================================
