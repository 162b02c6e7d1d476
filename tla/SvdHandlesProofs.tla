-------------------------- MODULE SvdHandlesProofs --------------------------
(***************************************************************************)
(* The properties of SvdCalls that rest on the order of the events: who    *)
(* has a handle, and what is still in the queue for it.  An INVITE comes   *)
(* before all other events of its handle, and a CANCEL before the end that *)
(* it causes, so a handler knows what has been delivered before.           *)
(***************************************************************************)
EXTENDS SvdCallsProofs

Ended == {"terminated", "destroyed"}
Early == {"free", "received"}

\* What holds of every session in every step.
Onward ==
  \A g \in Handle : /\ stack[g] \in Ended => stack'[g] \in Ended
                    /\ stack'[g] \in Early => stack[g] \in Early

-----------------------------------------------------------------------------
(* The stack.                                                              *)

LEMMA MoveOnward ==
  ASSUME StackTypeOK, NEW h \in Handle, NEW from, NEW to \in StackState \ Early,
         from \cap Ended = {}, stack' = Move(h, from, to)
  PROVE  Onward
  BY DEF Onward, Move, StackTypeOK

LEMMA CommandOnward ==
  ASSUME StackTypeOK, NEW h \in Handle,
         \/ stack' = stack
         \/ stack' = nua_respond_ok(h)
         \/ stack' = nua_respond_error(h)
         \/ stack' = nua_ack(h)
         \/ stack' = nua_authenticate(h)
         \/ stack' = nua_bye(h)
         \/ stack' = nua_invite(h)
         \/ stack' = nua_handle_destroy(h)
  PROVE  Onward
<1>1. CASE stack' = stack
  BY <1>1 DEF Onward
<1>2. CASE stack' = nua_handle_destroy(h)
  BY <1>2 DEF Onward, nua_handle_destroy, Ended, Early, StackTypeOK
<1>3. QED
  BY <1>1, <1>2, MoveOnward
     DEF nua_respond_ok, nua_respond_error, nua_ack, nua_authenticate, nua_bye,
         nua_invite, Live, Ended, Early, StackState

LEMMA PeerOnward ==
  ASSUME StackTypeOK, NEW h \in Handle, PeerStep(h)
  PROVE  Onward
  BY DEF Onward, StackTypeOK, PeerStep, PeerInvites, PeerCancels, PeerPracks,
     PeerGivesUp, PeerChallenges, PeerRings, PeerAnswers, PeerIsBusy,
     PeerRefuses, CallIsReady, PeerHangsUp, PeerReInvites, EndIsConfirmed, Step,
     Ended, Early

\* A phone answers the call that it has, ends the call that it has while it is
\* off the hook, or places a call on a new handle; it destroys no handle.
LEMMA PhoneCommands ==
  ASSUME TypeOK, CallInv, NEW c \in Chan, Phone(c) \/ dtmf_timer_cb(c)
  PROVE  \/ stack' = stack
         \/ /\ op_handle[c] \in Handle /\ ~off_hook[c] /\ off_hook'[c]
            /\ \/ stack' = nua_respond_ok(op_handle[c])
               \/ stack' = nua_respond_error(op_handle[c])
         \/ /\ op_handle[c] \in Handle /\ off_hook[c]
            /\ stack' = nua_bye(op_handle[c])
         \/ \E h \in Handle : stack[h] = "free" /\ stack' = nua_invite(h)
<1>0. op_handle[c] # None => op_handle[c] \in Handle
  BY DEF TypeOK
<1>1. ASSUME NEW feedOK \in BOOLEAN, NEW answerOK \in BOOLEAN,
             svd_handle_event_FXS_OFFHOOK(c, feedOK, answerOK)
      PROVE  \/ stack' = stack
             \/ /\ op_handle[c] \in Handle /\ ~off_hook[c] /\ off_hook'[c]
                /\ \/ stack' = nua_respond_ok(op_handle[c])
                   \/ stack' = nua_respond_error(op_handle[c])
  <2>1. ~off_hook[c] /\ off_hook'[c] /\ stack' = svd_answer(op_handle[c], feedOK, answerOK)
    BY <1>1 DEF svd_handle_event_FXS_OFFHOOK, TypeOK
  <2>2. QED
    BY <1>0, <2>1 DEF svd_answer
<1>2. CASE svd_handle_event_FXS_ONHOOK(c)
  BY <1>0, <1>2
     DEF svd_handle_event_FXS_ONHOOK, svd_bye, ByeSent, svd_clear_call
<1>3. CASE svd_handle_event_FXS_DIGIT_X(c)
  BY <1>3 DEF svd_handle_event_FXS_DIGIT_X, svd_clear_call
<1>4. CASE Hash(c) \/ dtmf_timer_cb(c)
  BY <1>4 DEF Hash, dtmf_timer_cb, PlaceCall, InviteSent, InviteFails
<1>5. QED
  BY <1>1, <1>2, <1>3, <1>4 DEF Phone

LEMMA PhoneOnward ==
  ASSUME TypeOK, CallInv, NEW c \in Chan, Phone(c) \/ dtmf_timer_cb(c)
  PROVE  Onward
<1>1. CASE stack' = stack
  BY <1>1 DEF Onward
<1>2. CASE stack' # stack
  BY <1>2, PhoneCommands, CommandOnward DEF TypeOK
<1>3. QED
  BY <1>1, <1>2

LEMMA CallbackOnward ==
  ASSUME TypeOK, svd_nua_callback
  PROVE  Onward
<1>1. CASE stack' = stack
  BY <1>1 DEF Onward
<1>2. ASSUME NEW h \in Handle, Deliver(h)
      PROVE  Onward
  <2>1. ASSUME NEW c \in Chan, i_state_terminated(h, c)
        PROVE  Onward
    <3>1. CASE op_handle[c] = None
      BY <2>1, <3>1 DEF i_state_terminated, svd_clear_call, Onward
    <3>2. CASE op_handle[c] # None
      BY <2>1, <3>2, CommandOnward DEF i_state_terminated, svd_clear_call, TypeOK
    <3>3. QED
      BY <3>1, <3>2
  <2>2. CASE \/ stack' = stack
             \/ stack' = nua_ack(h)
             \/ stack' = nua_authenticate(h)
             \/ stack' = nua_handle_destroy(h)
    BY <2>2, CommandOnward DEF TypeOK
  <2>3. QED
    BY <1>2, <2>1, <2>2
       DEF Deliver, svd_i_invite, svd_i_cancel, svd_i_prack, Ignored,
           i_state_received, i_state_proceeding, i_state_completing,
           i_state_ready, svd_r_invite_auth, svd_r_invite_busy
<1>3. QED
  BY <1>1, <1>2 DEF svd_nua_callback, Dropped

LEMMA NextOnward ==
  ASSUME TypeOK, CallInv, [Next]_vars
  PROVE  Onward
<1>1. CASE UNCHANGED vars
  BY <1>1 DEF vars, stackVars, Onward
<1>2. CASE Next
  BY <1>2, PhoneOnward, CallbackOnward, PeerOnward DEF Next, Peer, TypeOK
<1>3. QED
  BY <1>1, <1>2

-----------------------------------------------------------------------------
(* The queue.                                                              *)

\* The program takes the first event, and the others move up.
LEMMA TailMovesUp ==
  ASSUME StackTypeOK, events # << >>, events' = Tail(events)
  PROVE  /\ 1 \in 1 .. Len(events) /\ Head(events) = events[1]
         /\ \A k \in 1 .. Len(events') :
              /\ k + 1 \in 1 .. Len(events) /\ 1 < k + 1
              /\ events'[k] = events[k + 1]
              /\ \A j \in 1 .. Len(events') : j < k => j + 1 < k + 1
  BY DEF StackTypeOK

\* The peer adds events of one handle, in an order that the sessions give.
Added == 1 .. Len(events') \ 1 .. Len(events)

PeerAdds(h) ==
  /\ Len(events) \in Nat /\ Len(events') \in Nat
  /\ \A k \in 1 .. Len(events) : k \in 1 .. Len(events') /\ events'[k] = events[k]
  /\ \A k \in Added :
       /\ events'[k].h = h
       /\ events'[k].ev = "i_invite" =>
            k = Len(events) + 1 /\ (stack[h] = "free" \/ ReInvites)
       /\ events'[k].ev = "i_cancel" =>
            /\ k = Len(events) + 1
            /\ stack[h] = "received" /\ stack'[h] = "terminated"
       /\ events'[k].ev = "terminated" => stack'[h] = "terminated"
       /\ events'[k].ev = "ready" => stack[h] \notin Early \union Ended
  /\ \A g \in Handle : g # h => stack'[g] = stack[g]

LEMMA OneAdded ==
  ASSUME StackTypeOK, NEW h \in Handle, NEW ev \in EventKind, NEW from, NEW to,
         Step(h, from, to, <<Note(h, ev)>>)
  PROVE  /\ Len(events) \in Nat /\ Len(events') = Len(events) + 1
         /\ \A k \in 1 .. Len(events) : events'[k] = events[k]
         /\ events'[Len(events) + 1].h = h /\ events'[Len(events) + 1].ev = ev
         /\ stack[h] \in from /\ stack'[h] = to
         /\ \A g \in Handle : g # h => stack'[g] = stack[g]
<1>1. <<Note(h, ev)>> \in Seq(Event)
  BY NoteType
<1>2. QED
  BY <1>1 DEF Step, StackTypeOK, Note

LEMMA TwoAdded ==
  ASSUME StackTypeOK, NEW h \in Handle, NEW ev1 \in EventKind,
         NEW ev2 \in EventKind, NEW from, NEW to,
         Step(h, from, to, <<Note(h, ev1), Note(h, ev2)>>)
  PROVE  /\ Len(events) \in Nat /\ Len(events') = Len(events) + 2
         /\ \A k \in 1 .. Len(events) : events'[k] = events[k]
         /\ events'[Len(events) + 1].h = h /\ events'[Len(events) + 1].ev = ev1
         /\ events'[Len(events) + 2].h = h /\ events'[Len(events) + 2].ev = ev2
         /\ stack[h] \in from /\ stack'[h] = to
         /\ \A g \in Handle : g # h => stack'[g] = stack[g]
<1>1. <<Note(h, ev1), Note(h, ev2)>> \in Seq(Event)
  BY NoteType
<1>2. QED
  BY <1>1 DEF Step, StackTypeOK, Note

LEMMA PeerAddsEvents ==
  ASSUME StackTypeOK, NEW h \in Handle, PeerStep(h)
  PROVE  PeerAdds(h)
<1>1. ASSUME NEW ev \in EventKind \ {"i_invite", "i_cancel"}, NEW from, NEW to,
             Step(h, from, to, <<Note(h, ev)>>),
             ev = "terminated" => to = "terminated",
             ev = "ready" => from \cap (Early \union Ended) = {}
      PROVE  PeerAdds(h)
  <2>1. \A k \in Added : k = Len(events) + 1
    BY <1>1, OneAdded DEF Added
  <2>2. QED
    BY <1>1, <2>1, OneAdded DEF PeerAdds
<1>2. ASSUME NEW ev1 \in EventKind, NEW ev2 \in EventKind \ {"i_invite", "i_cancel"},
             NEW from, NEW to,
             Step(h, from, to, <<Note(h, ev1), Note(h, ev2)>>),
             ev1 = "i_invite" => from = {"free"} \/ ReInvites,
             ev1 = "i_cancel" => from = {"received"} /\ to = "terminated",
             ev1 \notin {"terminated", "ready"},
             ev2 = "terminated" => to = "terminated",
             ev2 = "ready" => from \cap (Early \union Ended) = {}
      PROVE  PeerAdds(h)
  <2>1. \A k \in Added : k = Len(events) + 1 \/ k = Len(events) + 2
    BY <1>2, TwoAdded DEF Added
  <2>2. QED
    BY <1>2, <2>1, TwoAdded DEF PeerAdds
<1>3. CASE PeerInvites(h) \/ PeerCancels(h) \/ PeerIsBusy(h) \/ PeerReInvites(h)
  <2>1. CASE PeerInvites(h)
    BY <2>1, <1>2 DEF PeerInvites, EventKind
  <2>2. CASE PeerCancels(h)
    BY <2>2, <1>2 DEF PeerCancels, EventKind
  <2>3. CASE PeerIsBusy(h)
    BY <2>3, <1>2 DEF PeerIsBusy, EventKind
  <2>4. CASE PeerReInvites(h)
    BY <2>4, <1>2 DEF PeerReInvites, EventKind, Early, Ended
  <2>5. QED
    BY <1>3, <2>1, <2>2, <2>3, <2>4
<1>4. CASE PeerPracks(h) \/ PeerGivesUp(h) \/ PeerChallenges(h) \/ PeerRings(h)
  BY <1>1, <1>4
     DEF PeerPracks, PeerGivesUp, PeerChallenges, PeerRings, EventKind
<1>5. CASE PeerAnswers(h) \/ CallIsReady(h)
  BY <1>1, <1>5 DEF PeerAnswers, CallIsReady, EventKind, Early, Ended
<1>6. CASE PeerRefuses(h) \/ PeerHangsUp(h) \/ EndIsConfirmed(h)
  BY <1>1, <1>6 DEF PeerRefuses, PeerHangsUp, EndIsConfirmed, EventKind
<1>7. QED
  BY <1>3, <1>4, <1>5, <1>6, Zenon DEF PeerStep

-----------------------------------------------------------------------------
(* Which channels get a handle.                                            *)

\* A channel gets the handle of a call that it places, or of the INVITE that is
\* delivered.
Gets(d) ==
  /\ op_handle[d] = None /\ op_handle'[d] \in Handle
  /\ \/ stack[op_handle'[d]] = "free" /\ events' = events
     \/ /\ events # << >> /\ Head(events) = Note(op_handle'[d], "i_invite")
        /\ events' = Tail(events)

LEMMA PhoneGets ==
  ASSUME TypeOK, CallInv, NEW c \in Chan, Phone(c) \/ dtmf_timer_cb(c), NEW d \in Chan
  PROVE  /\ op_handle'[d] \in {None, op_handle[d]} \/ Gets(d)
         /\ events' = events
<1>0. events' = events
  BY DEF Phone, dtmf_timer_cb, svd_handle_event_FXS_OFFHOOK,
     svd_handle_event_FXS_ONHOOK, svd_handle_event_FXS_DIGIT_X, Hash, PlaceCall
<1>1. ASSUME NEW feedOK \in BOOLEAN, NEW answerOK \in BOOLEAN,
             svd_handle_event_FXS_OFFHOOK(c, feedOK, answerOK)
      PROVE  op_handle'[d] \in {None, op_handle[d]}
  BY <1>1 DEF svd_handle_event_FXS_OFFHOOK, svd_answer, Set
<1>2. CASE svd_handle_event_FXS_ONHOOK(c) \/ svd_handle_event_FXS_DIGIT_X(c)
  BY <1>2, ClearCallFacts
     DEF svd_handle_event_FXS_ONHOOK, svd_handle_event_FXS_DIGIT_X, svd_bye
<1>3. CASE Hash(c) \/ dtmf_timer_cb(c)
  <2>1. op_handle[c] = None
    BY <1>3 DEF Hash, dtmf_timer_cb, CallInv, DialTimerOnlyWhenIdle
  <2>2. InviteSent(c) \/ InviteFails(c)
    BY <1>3 DEF Hash, dtmf_timer_cb, PlaceCall
  <2>3. CASE InviteSent(c)
    BY <1>0, <2>1, <2>3 DEF InviteSent, TypeOK, Gets
  <2>4. CASE InviteFails(c)
    BY <1>0, <2>1, <2>4 DEF InviteFails, TypeOK
  <2>5. QED
    BY <2>2, <2>3, <2>4
<1>4. QED
  BY <1>0, <1>1, <1>2, <1>3 DEF Phone

LEMMA CallbackTakes ==
  ASSUME svd_nua_callback
  PROVE  events # << >> /\ events' = Tail(events)
<1>1. ASSUME NEW h \in Handle, Deliver(h)
      PROVE  \E ev : Delivered(h, ev)
  BY <1>1 DEF Deliver, svd_i_invite, svd_i_cancel, svd_i_prack, Ignored, State,
     i_state_received, i_state_proceeding, i_state_completing, i_state_ready,
     i_state_terminated, svd_r_invite_auth, svd_r_invite_busy
<1>2. QED
  BY <1>1 DEF svd_nua_callback, Delivered, Dropped

LEMMA CallbackGets ==
  ASSUME TypeOK, svd_nua_callback, NEW d \in Chan
  PROVE  op_handle'[d] \in {None, op_handle[d]} \/ Gets(d)
<1>1. CASE Dropped
  BY <1>1 DEF Dropped, callVars
<1>2. ASSUME NEW h \in Handle, Deliver(h)
      PROVE  op_handle'[d] \in {None, op_handle[d]} \/ Gets(d)
  <2>1. ASSUME NEW a \in Account \union {None}, svd_i_invite(h, a)
        PROVE  op_handle'[d] = op_handle[d] \/ Gets(d)
    BY <2>1 DEF svd_i_invite, Callable, Set, Delivered, Gets
  <2>2. CASE svd_i_cancel(h)
    BY <2>2 DEF svd_i_cancel, Set
  <2>3. ASSUME NEW c \in Chan, i_state_terminated(h, c)
        PROVE  op_handle'[d] \in {None, op_handle[d]}
    BY <2>3, ClearCallFacts DEF i_state_terminated
  <2>4. CASE UNCHANGED op_handle
    BY <2>4
  <2>5. QED
    BY <1>2, <2>1, <2>2, <2>3, <2>4
       DEF Deliver, svd_i_prack, Ignored, i_state_received, i_state_proceeding,
           i_state_completing, i_state_ready, svd_r_invite_auth,
           svd_r_invite_busy, callVars
<1>3. QED
  BY <1>1, <1>2 DEF svd_nua_callback

-----------------------------------------------------------------------------
(***************************************************************************)
(* One answerer.  With a peer that sends no INVITE inside a call, an INVITE *)
(* that waits is the first event of its handle, and no channel has it yet. *)
(***************************************************************************)
Unbound(h) == \A c \in Chan : op_handle[c] # h

NewCallWaits ==
  \A k \in 1 .. Len(events) :
    events[k].ev = "i_invite" =>
      /\ Unbound(events[k].h)
      /\ \A j \in 1 .. Len(events) : j < k => events[j].h # events[k].h

LEMMA PhoneKeepsWaiting ==
  ASSUME TypeOK, CallInv, KnownQueued, NewCallWaits,
         NEW c \in Chan, Phone(c) \/ dtmf_timer_cb(c)
  PROVE  NewCallWaits'
<1>1. SUFFICES ASSUME NEW k \in 1 .. Len(events), events[k].ev = "i_invite",
                      NEW d \in Chan
               PROVE  op_handle'[d] # events[k].h
  BY PhoneGets DEF NewCallWaits, Unbound
<1>2. events[k].h \in Handle /\ events[k].h # None /\ stack[events[k].h] # "free"
  BY QueuedHandle, ChanAssumption DEF TypeOK, KnownQueued
<1>3. events' = Tail(events) => events' # events \/ events = << >>
  BY DEF TypeOK, StackTypeOK
<1>4. op_handle[d] # events[k].h
  BY <1>1 DEF NewCallWaits, Unbound
<1>5. QED
  BY <1>2, <1>3, <1>4, PhoneGets DEF Gets

LEMMA CallbackKeepsWaiting ==
  ASSUME TypeOK, NewCallWaits, svd_nua_callback
  PROVE  NewCallWaits'
<1>1. events # << >> /\ events' = Tail(events) /\ StackTypeOK
  BY CallbackTakes DEF TypeOK
<1>2. SUFFICES ASSUME NEW k \in 1 .. Len(events'), events'[k].ev = "i_invite"
               PROVE  /\ \A d \in Chan : op_handle'[d] # events'[k].h
                      /\ \A j \in 1 .. Len(events') :
                           j < k => events'[j].h # events'[k].h
  BY DEF NewCallWaits, Unbound
<1>3. /\ k + 1 \in 1 .. Len(events) /\ 1 < k + 1 /\ 1 \in 1 .. Len(events)
      /\ events'[k] = events[k + 1] /\ Head(events) = events[1]
      /\ \A j \in 1 .. Len(events') : /\ j + 1 \in 1 .. Len(events)
                                      /\ events'[j] = events[j + 1]
                                      /\ j < k => j + 1 < k + 1
  BY <1>1, TailMovesUp
<1>4. events[k + 1].ev = "i_invite" /\ events[k + 1].h \in Handle
  BY <1>1, <1>2, <1>3, QueuedHandle
<1>5. ASSUME NEW d \in Chan
      PROVE  op_handle'[d] # events'[k].h
  <2>1. op_handle[d] # events[k + 1].h /\ events[1].h # events[k + 1].h
    BY <1>3, <1>4 DEF NewCallWaits, Unbound
  <2>2. None # events[k + 1].h
    BY <1>4, ChanAssumption
  <2>3. events' # events
    BY <1>1 DEF StackTypeOK
  <2>4. QED
    BY <1>3, <2>1, <2>2, <2>3, CallbackGets DEF Gets, Note
<1>6. QED
  BY <1>3, <1>4, <1>5 DEF NewCallWaits

LEMMA PeerKeepsWaiting ==
  ASSUME TypeOK, ~ReInvites, KnownBound, KnownQueued, NewCallWaits,
         NEW h \in Handle, Peer(h)
  PROVE  NewCallWaits'
<1>1. op_handle' = op_handle /\ PeerAdds(h) /\ StackTypeOK
  BY PeerAddsEvents DEF Peer, callVars, TypeOK
<1>2. SUFFICES ASSUME NEW k \in 1 .. Len(events'), events'[k].ev = "i_invite"
               PROVE  /\ \A d \in Chan : op_handle[d] # events'[k].h
                      /\ \A j \in 1 .. Len(events') :
                           j < k => events'[j].h # events'[k].h
  BY <1>1 DEF NewCallWaits, Unbound
<1>3. CASE k \in 1 .. Len(events)
  <2>1. \A j \in 1 .. Len(events') : j < k => j \in 1 .. Len(events)
    BY <1>1, <1>3 DEF PeerAdds
  <2>2. QED
    BY <1>1, <1>2, <1>3, <2>1 DEF PeerAdds, NewCallWaits, Unbound
<1>4. CASE k \in Added
  <2>1. k = Len(events) + 1 /\ events'[k].h = h /\ stack[h] = "free"
    BY <1>1, <1>2, <1>4 DEF PeerAdds
  <2>2. \A d \in Chan : op_handle[d] # h
    BY <2>1, ChanAssumption DEF KnownBound
  <2>3. \A j \in 1 .. Len(events') : j < k => j \in 1 .. Len(events)
    BY <1>1, <2>1 DEF PeerAdds
  <2>4. QED
    BY <1>1, <2>1, <2>2, <2>3 DEF PeerAdds, KnownQueued
<1>5. QED
  BY <1>3, <1>4 DEF Added

\* Two channels with a call are phones that ring for it.  An INVITE finds no
\* channel of its handle, and picking up clears every other channel.
LEMMA PhoneKeepsOneAnswerer ==
  ASSUME TypeOK, CallInv, KnownBound, OneAnswerer,
         NEW c \in Chan, Phone(c) \/ dtmf_timer_cb(c)
  PROVE  OneAnswerer'
<1>1. ASSUME NEW feedOK \in BOOLEAN, NEW answerOK \in BOOLEAN,
             svd_handle_event_FXS_OFFHOOK(c, feedOK, answerOK)
      PROVE  OneAnswerer'
  <2>1. CASE op_handle[c] = None
    <3>1. op_handle' = op_handle
      BY <1>1, <2>1 DEF svd_handle_event_FXS_OFFHOOK, Others, Set, TypeOK
    <3>2. \A d \in Chan : d # c => off_hook'[d] = off_hook[d] /\ ring'[d] = ring[d]
      BY <1>1, <2>1 DEF svd_handle_event_FXS_OFFHOOK, TypeOK
    <3>3. QED
      BY <2>1, <3>1, <3>2 DEF OneAnswerer
  <2>2. CASE op_handle[c] # None
    <3>1. \A d \in Chan : d # c => op_handle'[d] = None
      BY <1>1, <2>2 DEF svd_handle_event_FXS_OFFHOOK, Others, Set
    <3>2. QED
      BY <3>1 DEF OneAnswerer
  <2>3. QED
    BY <2>1, <2>2
<1>2. CASE svd_handle_event_FXS_ONHOOK(c)
  <2>1. \A d \in Chan : d # c => /\ op_handle'[d] = op_handle[d]
                                 /\ off_hook'[d] = off_hook[d] /\ ring'[d] = ring[d]
    BY <1>2, ClearCallFacts DEF svd_handle_event_FXS_ONHOOK, svd_bye, TypeOK
  <2>2. op_handle'[c] \in {None, op_handle[c]} /\ off_hook[c]
    BY <1>2, ClearCallFacts DEF svd_handle_event_FXS_ONHOOK, svd_bye, TypeOK
  <2>3. QED
    BY <2>1, <2>2 DEF OneAnswerer
<1>3. CASE svd_handle_event_FXS_DIGIT_X(c)
  <2>1. op_handle' = op_handle
    BY <1>3, ClearCallFacts
       DEF svd_handle_event_FXS_DIGIT_X, svd_clear_call, Forget, TypeOK
  <2>2. UNCHANGED <<off_hook, ring>>
    BY <1>3 DEF svd_handle_event_FXS_DIGIT_X
  <2>3. QED
    BY <2>1, <2>2 DEF OneAnswerer
<1>4. CASE Hash(c) \/ dtmf_timer_cb(c)
  <2>1. op_handle[c] = None
    BY <1>4 DEF Hash, dtmf_timer_cb, CallInv, DialTimerOnlyWhenIdle
  <2>2. UNCHANGED <<off_hook, ring>> /\ (InviteSent(c) \/ InviteFails(c))
    BY <1>4 DEF Hash, dtmf_timer_cb, PlaceCall
  <2>3. CASE InviteSent(c)
    <3>1. PICK h \in Handle : /\ stack[h] = "free"
                              /\ op_handle' = [op_handle EXCEPT ![c] = h]
      BY <2>3 DEF InviteSent
    <3>2. \A d \in Chan : op_handle[d] # h
      BY <3>1, ChanAssumption DEF KnownBound
    <3>3. /\ op_handle'[c] = h
          /\ \A d \in Chan : d # c => op_handle'[d] = op_handle[d]
      BY <3>1 DEF TypeOK
    <3>4. QED
      BY <2>2, <3>2, <3>3 DEF OneAnswerer
  <2>4. CASE InviteFails(c)
    <3>1. op_handle' = op_handle
      BY <2>1, <2>4 DEF InviteFails, TypeOK
    <3>2. QED
      BY <2>2, <3>1 DEF OneAnswerer
  <2>5. QED
    BY <2>2, <2>3, <2>4
<1>5. QED
  BY <1>1, <1>2, <1>3, <1>4 DEF Phone

LEMMA CallbackKeepsOneAnswerer ==
  ASSUME TypeOK, NewCallWaits, OneAnswerer, svd_nua_callback
  PROVE  OneAnswerer'
<1>1. CASE Dropped
  BY <1>1 DEF Dropped, callVars, lineVars, OneAnswerer
<1>2. ASSUME NEW h \in Handle, Deliver(h)
      PROVE  OneAnswerer'
  <2>1. ASSUME NEW a \in Account \union {None}, svd_i_invite(h, a)
        PROVE  OneAnswerer'
    <3>1. Unbound(h)
      <4>1. events # << >> /\ Head(events).h = h /\ Head(events).ev = "i_invite"
        BY <2>1 DEF svd_i_invite, Delivered, Note
      <4>2. 1 \in 1 .. Len(events) /\ events[1] = Head(events)
        BY <4>1 DEF TypeOK, StackTypeOK
      <4>3. QED
        BY <4>1, <4>2 DEF NewCallWaits
    <3>2. \A d \in Chan :
            /\ d \in Callable(a) => op_handle'[d] = h /\ ring'[d] /\ ~off_hook[d]
            /\ d \notin Callable(a) => /\ op_handle'[d] = op_handle[d]
                                       /\ ring'[d] = ring[d]
      BY <2>1 DEF svd_i_invite, Set, Callable
    <3>3. off_hook' = off_hook
      BY <2>1 DEF svd_i_invite
    <3>4. QED
      BY <3>1, <3>2, <3>3 DEF OneAnswerer, Unbound
  <2>2. CASE svd_i_cancel(h)
    <3>1. \A d \in Chan : /\ op_handle[d] = h => op_handle'[d] = None
                          /\ op_handle[d] # h => /\ op_handle'[d] = op_handle[d]
                                                 /\ ring'[d] = ring[d]
      BY <2>2 DEF svd_i_cancel, Set, Bound
    <3>2. off_hook' = off_hook
      BY <2>2 DEF svd_i_cancel
    <3>3. QED
      BY <3>1, <3>2 DEF OneAnswerer
  <2>3. ASSUME NEW c \in Chan, i_state_terminated(h, c)
        PROVE  OneAnswerer'
    <3>1. \A d \in Chan : /\ d = c => op_handle'[d] = None
                          /\ d # c => /\ op_handle'[d] = op_handle[d]
                                      /\ ring'[d] = ring[d]
      BY <2>3, ClearCallFacts DEF i_state_terminated, RingEnds, TypeOK
    <3>2. off_hook' = off_hook
      BY <2>3 DEF i_state_terminated
    <3>3. QED
      BY <3>1, <3>2 DEF OneAnswerer
  <2>4. CASE UNCHANGED <<op_handle, off_hook, ring>>
    BY <2>4 DEF OneAnswerer
  <2>5. QED
    BY <1>2, <2>1, <2>2, <2>3, <2>4
       DEF Deliver, svd_i_prack, Ignored, i_state_received, i_state_proceeding,
           i_state_completing, i_state_ready, svd_r_invite_auth,
           svd_r_invite_busy, callVars, lineVars
<1>3. QED
  BY <1>1, <1>2 DEF svd_nua_callback

KnownInv == KnownBound /\ KnownQueued

LEMMA KnownInvariant == Spec => []KnownInv
<1>1. TypeOK /\ Init => KnownInv
  BY DEF Init, StackInit, KnownInv, KnownBound, KnownQueued
<1>2. TypeOK /\ TypeOK' /\ KnownInv /\ [Next]_vars => KnownInv'
  BY NextKeepsKnown DEF KnownInv
<1>3. QED
  BY <1>1, <1>2, TypeCorrect, PTL DEF Spec

AnswererInv == NewCallWaits /\ OneAnswerer

LEMMA AnswererInvariant ==
  ASSUME ~ReInvites PROVE Spec => []AnswererInv
<1>1. TypeOK /\ Init => AnswererInv
  BY DEF Init, StackInit, AnswererInv, NewCallWaits, OneAnswerer
<1>2. TypeOK /\ CallInv /\ KnownInv /\ AnswererInv /\ [Next]_vars => AnswererInv'
  <2>1. SUFFICES ASSUME TypeOK, CallInv, KnownInv, AnswererInv, [Next]_vars
                 PROVE  AnswererInv'
    OBVIOUS
  <2>2. ASSUME NEW c \in Chan, Phone(c) \/ dtmf_timer_cb(c)
        PROVE  AnswererInv'
    BY <2>1, <2>2, PhoneKeepsWaiting, PhoneKeepsOneAnswerer DEF KnownInv, AnswererInv
  <2>3. CASE svd_nua_callback
    BY <2>1, <2>3, CallbackKeepsWaiting, CallbackKeepsOneAnswerer DEF AnswererInv
  <2>4. ASSUME NEW h \in Handle, Peer(h)
        PROVE  AnswererInv'
    <3>1. NewCallWaits'
      BY <2>1, <2>4, PeerKeepsWaiting DEF KnownInv, AnswererInv
    <3>2. OneAnswerer'
      BY <2>1, <2>4 DEF Peer, callVars, lineVars, AnswererInv, OneAnswerer
    <3>3. QED
      BY <3>1, <3>2 DEF AnswererInv
  <2>5. CASE UNCHANGED vars
    BY <2>1, <2>5 DEF vars, stackVars, callVars, lineVars, AnswererInv,
       NewCallWaits, Unbound, OneAnswerer
  <2>6. QED
    BY <2>1, <2>2, <2>3, <2>4, <2>5 DEF Next
<1>3. QED
  BY <1>1, <1>2, TypeCorrect, CallInvariant, KnownInvariant, PTL DEF Spec

\* However many phones ring for a call, only one of them has it once it is
\* picked up, as long as the peer sends no INVITE inside a call.
THEOREM OnePhoneAnswers ==
  ASSUME ~ReInvites PROVE Spec => []OneAnswerer
<1>1. AnswererInv => OneAnswerer
  BY DEF AnswererInv
<1>2. QED
  BY <1>1, AnswererInvariant, PTL

-----------------------------------------------------------------------------
(***************************************************************************)
(* No dangling handle.  A CANCEL waits before the end that it causes, so   *)
(* the end of a call that several phones rang for finds it on none of them *)
(* or, once it was answered, on one.                                       *)
(***************************************************************************)
Waits(h, ev) == \E k \in 1 .. Len(events) : events[k].h = h /\ events[k].ev = ev

CancelBeforeEnd ==
  \A k \in 1 .. Len(events) :
    /\ events[k].ev = "terminated" => stack[events[k].h] \in Ended
    /\ events[k].ev = "i_cancel" =>
         /\ stack[events[k].h] \in Ended
         /\ \A j \in 1 .. Len(events) :
              j < k /\ events[j].h = events[k].h => events[j].ev # "terminated"

LEMMA ProgramKeepsCancels ==
  ASSUME StackTypeOK, Onward, CancelBeforeEnd,
         events' = events \/ (events # << >> /\ events' = Tail(events))
  PROVE  CancelBeforeEnd'
<1>1. \A k \in 1 .. Len(events) :
        stack[events[k].h] \in Ended => stack'[events[k].h] \in Ended
  BY QueuedHandle DEF Onward
<1>2. CASE events' = events
  BY <1>1, <1>2 DEF CancelBeforeEnd
<1>3. CASE events # << >> /\ events' = Tail(events)
  <2>1. \A k \in 1 .. Len(events') :
          /\ k + 1 \in 1 .. Len(events) /\ events'[k] = events[k + 1]
          /\ \A j \in 1 .. Len(events') : j < k => j + 1 < k + 1
    BY <1>3, TailMovesUp
  <2>2. QED
    BY <1>1, <2>1 DEF CancelBeforeEnd
<1>4. QED
  BY <1>2, <1>3

LEMMA PeerKeepsCancels ==
  ASSUME StackTypeOK, Onward, CancelBeforeEnd, NEW h \in Handle, PeerStep(h)
  PROVE  CancelBeforeEnd'
<1>1. PeerAdds(h)
  BY PeerAddsEvents
<1>2. \A k \in 1 .. Len(events) :
        stack[events[k].h] \in Ended => stack'[events[k].h] \in Ended
  BY QueuedHandle DEF Onward
<1>3. SUFFICES ASSUME NEW k \in 1 .. Len(events')
               PROVE  /\ events'[k].ev = "terminated" => stack'[events'[k].h] \in Ended
                      /\ events'[k].ev = "i_cancel" =>
                           /\ stack'[events'[k].h] \in Ended
                           /\ \A j \in 1 .. Len(events') :
                                j < k /\ events'[j].h = events'[k].h
                                  => events'[j].ev # "terminated"
  BY DEF CancelBeforeEnd
<1>4. CASE k \in 1 .. Len(events)
  <2>1. \A j \in 1 .. Len(events') : j < k => j \in 1 .. Len(events)
    BY <1>1, <1>4 DEF PeerAdds
  <2>2. QED
    BY <1>1, <1>2, <1>4, <2>1 DEF PeerAdds, CancelBeforeEnd
<1>5. CASE k \in Added
  <2>1. events'[k].h = h
    BY <1>1, <1>5 DEF PeerAdds
  <2>2. events'[k].ev = "terminated" => stack'[h] \in Ended
    BY <1>1, <1>5 DEF PeerAdds, Ended
  <2>3. ASSUME events'[k].ev = "i_cancel"
        PROVE  /\ stack'[h] \in Ended
               /\ \A j \in 1 .. Len(events') :
                    j < k /\ events'[j].h = h => events'[j].ev # "terminated"
    <3>1. k = Len(events) + 1 /\ stack[h] = "received"
      BY <1>1, <1>5, <2>3 DEF PeerAdds
    <3>2. stack'[h] \in Ended
      BY <1>1, <1>5, <2>3 DEF PeerAdds, Ended
    <3>3. \A j \in 1 .. Len(events') : j < k => j \in 1 .. Len(events)
      BY <1>1, <3>1 DEF PeerAdds
    <3>4. stack[h] \notin Ended
      BY <3>1 DEF Ended
    <3>5. QED
      BY <1>1, <3>2, <3>3, <3>4 DEF PeerAdds, CancelBeforeEnd
  <2>4. QED
    BY <2>1, <2>2, <2>3
<1>6. QED
  BY <1>4, <1>5 DEF Added

\* The program takes the first event: what waits has waited before, and waits
\* on unless it was the first.
LEMMA TailWaits ==
  ASSUME StackTypeOK, events # << >>, events' = Tail(events), NEW h, NEW ev
  PROVE  /\ Waits(h, ev)' => Waits(h, ev)
         /\ Waits(h, ev) => Waits(h, ev)' \/ (Head(events).h = h /\ Head(events).ev = ev)
<1>1. /\ Head(events) = events[1] /\ Len(events) \in Nat /\ Len(events') \in Nat
      /\ \A k \in 1 .. Len(events') : /\ k + 1 \in 1 .. Len(events)
                                      /\ events'[k] = events[k + 1]
  BY TailMovesUp DEF StackTypeOK
<1>2. ASSUME NEW k \in 1 .. Len(events), k # 1
      PROVE  k - 1 \in 1 .. Len(events') /\ events'[k - 1] = events[k]
  <2>1. Len(events') = Len(events) - 1 /\ k - 1 \in 1 .. Len(events) - 1
    BY <1>2 DEF StackTypeOK
  <2>2. QED
    BY <1>1, <2>1
<1>3. Waits(h, ev)' => Waits(h, ev)
  BY <1>1 DEF Waits
<1>4. ASSUME NEW k \in 1 .. Len(events), events[k].h = h, events[k].ev = ev
      PROVE  Waits(h, ev)' \/ (Head(events).h = h /\ Head(events).ev = ev)
  <2>1. CASE k = 1
    BY <1>1, <1>4, <2>1
  <2>2. CASE k # 1
    <3>1. /\ k - 1 \in 1 .. Len(events')
          /\ events'[k - 1].h = h /\ events'[k - 1].ev = ev
      BY <1>2, <1>4, <2>2
    <3>2. \E m \in 1 .. Len(events') : events'[m].h = h /\ events'[m].ev = ev
      BY <3>1
    <3>3. QED
      BY <3>2, Zenon DEF Waits
  <2>3. QED
    BY <2>1, <2>2
<1>5. QED
  BY <1>3, <1>4 DEF Waits

Settled(h) == stack[h] \notin Early /\ ~Waits(h, "i_cancel")
Single(h) == \A c, d \in Chan : op_handle[c] = h /\ op_handle[d] = h => c = d

\* A call that is answered, refused or over, and whose CANCEL, if there is one,
\* was delivered, is on one channel at most, and its INVITE was delivered.
SettledIsSingle ==
  \A h \in Handle : Settled(h) => ~Waits(h, "i_invite") /\ Single(h)

HandleInv == CancelBeforeEnd /\ SettledIsSingle /\ NoDanglingHandle

LEMMA PhoneKeepsSettled ==
  ASSUME TypeOK, CallInv, KnownInv, AnswererInv, SettledIsSingle,
         NEW c \in Chan, Phone(c) \/ dtmf_timer_cb(c)
  PROVE  SettledIsSingle'
<1>1. SUFFICES ASSUME NEW g \in Handle, Settled(g)'
               PROVE  ~Waits(g, "i_invite")' /\ Single(g)'
  BY DEF SettledIsSingle
<1>2. events' = events /\ g # None
  BY PhoneGets, ChanAssumption
<1>3. ASSUME stack'[g] = stack[g],
             \A d \in Chan : op_handle'[d] = g => op_handle[d] = g
      PROVE  ~Waits(g, "i_invite")' /\ Single(g)'
  BY <1>1, <1>2, <1>3 DEF Settled, SettledIsSingle, Waits, Single
<1>4. ASSUME NEW d \in Chan, op_handle[d] = g
      PROVE  ~Waits(g, "i_invite")'
  BY <1>2, <1>4 DEF AnswererInv, NewCallWaits, Unbound, Waits
<1>5. ASSUME NEW feedOK \in BOOLEAN, NEW answerOK \in BOOLEAN,
             svd_handle_event_FXS_OFFHOOK(c, feedOK, answerOK)
      PROVE  ~Waits(g, "i_invite")' /\ Single(g)'
  <2>1. stack' = svd_answer(op_handle[c], feedOK, answerOK)
    BY <1>5 DEF svd_handle_event_FXS_OFFHOOK
  <2>2. \A d \in Chan : op_handle'[d] \in {None, op_handle[d]}
    BY <1>5 DEF svd_handle_event_FXS_OFFHOOK, Set
  <2>3. CASE op_handle[c] # g
    <3>1. stack'[g] = stack[g]
      BY <2>1, <2>3
         DEF svd_answer, nua_respond_ok, nua_respond_error, Move, TypeOK, StackTypeOK
    <3>2. QED
      BY <1>2, <1>3, <2>2, <3>1
  <2>4. CASE op_handle[c] = g
    <3>1. \A d \in Chan : d # c => op_handle'[d] = None
      BY <1>2, <1>5, <2>4 DEF svd_handle_event_FXS_OFFHOOK, Others, Set
    <3>2. QED
      BY <1>2, <1>4, <2>4, <3>1 DEF Single
  <2>5. QED
    BY <2>3, <2>4
<1>6. CASE svd_handle_event_FXS_ONHOOK(c)
  <2>1. \A d \in Chan : op_handle'[d] \in {None, op_handle[d]}
    BY <1>6, ClearCallFacts DEF svd_handle_event_FXS_ONHOOK, svd_bye
  <2>2. CASE op_handle[c] # g
    <3>1. stack'[g] = stack[g]
      BY <1>6, <2>2
         DEF svd_handle_event_FXS_ONHOOK, svd_bye, ByeSent, nua_bye, Move,
             svd_clear_call, TypeOK, StackTypeOK
    <3>2. QED
      BY <1>2, <1>3, <2>1, <3>1
  <2>3. CASE op_handle[c] = g
    <3>1. \A d \in Chan : op_handle[d] = g => d = c
      BY <1>2, <1>6, <2>3
         DEF svd_handle_event_FXS_ONHOOK, AnswererInv, OneAnswerer
    <3>2. QED
      BY <1>2, <1>4, <2>1, <2>3, <3>1 DEF Single
  <2>4. QED
    BY <2>2, <2>3
<1>7. CASE svd_handle_event_FXS_DIGIT_X(c)
  <2>1. \A d \in Chan : op_handle'[d] \in {None, op_handle[d]}
    BY <1>7, ClearCallFacts DEF svd_handle_event_FXS_DIGIT_X
  <2>2. stack' = stack
    BY <1>7 DEF svd_handle_event_FXS_DIGIT_X, svd_clear_call
  <2>3. QED
    BY <1>2, <1>3, <2>1, <2>2
<1>8. CASE Hash(c) \/ dtmf_timer_cb(c)
  <2>1. op_handle[c] = None /\ (InviteSent(c) \/ InviteFails(c))
    BY <1>8 DEF Hash, dtmf_timer_cb, PlaceCall, CallInv, DialTimerOnlyWhenIdle
  <2>2. CASE InviteSent(c)
    <3>1. PICK h \in Handle : /\ stack[h] = "free" /\ stack' = nua_invite(h)
                              /\ op_handle' = [op_handle EXCEPT ![c] = h]
      BY <2>2 DEF InviteSent
    <3>2. CASE h = g
      <4>1. \A d \in Chan : op_handle[d] # g
        BY <1>2, <3>1, <3>2 DEF KnownInv, KnownBound
      <4>2. Single(g)'
        BY <3>1, <3>2, <4>1 DEF Single, TypeOK
      <4>3. ~Waits(g, "i_invite")'
        BY <1>2, <3>1, <3>2 DEF KnownInv, KnownQueued, Waits
      <4>4. QED
        BY <4>2, <4>3
    <3>3. CASE h # g
      BY <1>3, <3>1, <3>3 DEF nua_invite, Move, TypeOK, StackTypeOK
    <3>4. QED
      BY <3>2, <3>3
  <2>3. CASE InviteFails(c)
    BY <1>3, <2>1, <2>3 DEF InviteFails, TypeOK
  <2>4. QED
    BY <2>1, <2>2, <2>3
<1>9. QED
  BY <1>5, <1>6, <1>7, <1>8 DEF Phone

LEMMA PhoneKeepsHandles ==
  ASSUME TypeOK, CallInv, NoDanglingHandle,
         NEW c \in Chan, Phone(c) \/ dtmf_timer_cb(c)
  PROVE  NoDanglingHandle'
<1>1. SUFFICES ASSUME NEW d \in Chan, op_handle'[d] # None
               PROVE  stack'[op_handle'[d]] # "destroyed"
  BY DEF NoDanglingHandle
<1>2. events' # Tail(events) \/ events = << >>
  BY PhoneGets DEF TypeOK, StackTypeOK
<1>3. op_handle'[d] \in Handle /\ stack[op_handle'[d]] # "destroyed"
  BY <1>1, <1>2, PhoneGets DEF NoDanglingHandle, Gets, TypeOK
<1>4. \A g \in Handle : stack[g] # "destroyed" => stack'[g] # "destroyed"
  BY PhoneCommands
     DEF nua_respond_ok, nua_respond_error, nua_bye, nua_invite, Move, TypeOK,
         StackTypeOK
<1>5. QED
  BY <1>3, <1>4
\* The end of a call is delivered after its CANCEL, if there was one.
LEMMA EndIsOfOneChannel ==
  ASSUME StackTypeOK, CancelBeforeEnd, SettledIsSingle, NEW h \in Handle,
         events # << >>, Head(events).h = h, Head(events).ev = "terminated"
  PROVE  Single(h)
<1>1. 1 \in 1 .. Len(events) /\ events[1] = Head(events)
  BY DEF StackTypeOK
<1>2. stack[h] \in Ended
  BY <1>1 DEF CancelBeforeEnd
<1>3. ASSUME NEW k \in 1 .. Len(events), events[k].h = h, events[k].ev = "i_cancel"
      PROVE  FALSE
  <2>1. 1 < k
    BY <1>1, <1>3
  <2>2. QED
    BY <1>1, <1>3, <2>1 DEF CancelBeforeEnd
<1>4. Settled(h)
  BY <1>2, <1>3 DEF Settled, Waits, Ended, Early
<1>5. QED
  BY <1>4 DEF SettledIsSingle

LEMMA CallbackKeepsSettled ==
  ASSUME TypeOK, AnswererInv, HandleInv, svd_nua_callback
  PROVE  SettledIsSingle'
<1>1. events # << >> /\ events' = Tail(events) /\ StackTypeOK
  BY CallbackTakes DEF TypeOK
<1>2. SUFFICES ASSUME NEW g \in Handle, Settled(g)'
               PROVE  ~Waits(g, "i_invite")' /\ Single(g)'
  BY DEF SettledIsSingle
<1>3. g # None /\ CancelBeforeEnd /\ SettledIsSingle /\ NoDanglingHandle
  BY ChanAssumption DEF HandleInv
<1>4. stack'[g] \notin Early /\ ~Waits(g, "i_cancel")'
  BY <1>2 DEF Settled
\* The event is the first of the queue, so an INVITE of its handle that waits
\* after it would have waited behind an event of its handle.
<1>5. ASSUME Head(events).h = g
      PROVE  ~Waits(g, "i_invite")'
  <2>1. SUFFICES ASSUME NEW k \in 1 .. Len(events'), events'[k].h = g,
                        events'[k].ev = "i_invite"
                 PROVE  FALSE
    BY DEF Waits
  <2>2. /\ k + 1 \in 1 .. Len(events) /\ 1 < k + 1 /\ 1 \in 1 .. Len(events)
        /\ events'[k] = events[k + 1] /\ Head(events) = events[1]
    BY <1>1, TailMovesUp
  <2>3. QED
    BY <1>5, <2>1, <2>2 DEF AnswererInv, NewCallWaits
\* An event that is not the end of this call's ringing leaves the rest.
<1>6. ASSUME stack[g] \notin Early, Head(events).h # g \/ Head(events).ev # "i_cancel",
             \A d \in Chan : op_handle'[d] = g => op_handle[d] = g
      PROVE  ~Waits(g, "i_invite")' /\ Single(g)'
  <2>1. Settled(g)
    BY <1>1, <1>4, <1>6, TailWaits DEF Settled
  <2>2. ~Waits(g, "i_invite") /\ Single(g)
    BY <1>3, <2>1 DEF SettledIsSingle
  <2>3. QED
    BY <1>1, <1>6, <2>2, TailWaits DEF Single
<1>7. CASE Dropped
  <2>1. UNCHANGED <<stack, op_handle>> /\ stack[Head(events).h] = "destroyed"
    BY <1>7 DEF Dropped, callVars
  <2>2. CASE Head(events).h = g
    <3>1. \A d \in Chan : op_handle'[d] # g
      BY <1>3, <2>1, <2>2 DEF NoDanglingHandle
    <3>2. QED
      BY <1>5, <2>2, <3>1 DEF Single
  <2>3. CASE Head(events).h # g
    BY <1>4, <1>6, <2>1, <2>3
  <2>4. QED
    BY <2>2, <2>3
<1>8. ASSUME NEW h \in Handle, Deliver(h)
      PROVE  ~Waits(g, "i_invite")' /\ Single(g)'
  <2>1. ASSUME NEW a \in Account \union {None}, svd_i_invite(h, a)
        PROVE  ~Waits(g, "i_invite")' /\ Single(g)'
    <3>1. Head(events).h = h /\ Head(events).ev = "i_invite"
      BY <2>1 DEF svd_i_invite, Delivered, Note
    <3>2. Waits(h, "i_invite") /\ Unbound(h)
      <4>1. 1 \in 1 .. Len(events) /\ events[1] = Head(events)
        BY <1>1, TailMovesUp
      <4>2. QED
        BY <3>1, <4>1 DEF AnswererInv, NewCallWaits, Waits
    <3>3. \A d \in Chan : op_handle'[d] \in {h, op_handle[d]}
      BY <2>1 DEF svd_i_invite, Set
    <3>4. \/ stack' = stack
          \/ Callable(a) = {} /\ stack' = nua_handle_destroy(h)
      BY <2>1 DEF svd_i_invite
    <3>5. CASE g # h
      <4>1. stack'[g] = stack[g]
        BY <1>1, <3>4, <3>5 DEF nua_handle_destroy, StackTypeOK
      <4>2. QED
        BY <1>4, <1>6, <3>1, <3>3, <3>5, <4>1
    <3>6. CASE g = h /\ stack' = stack
      <4>1. Settled(g)
        BY <1>1, <1>4, <3>1, <3>6, TailWaits DEF Settled
      <4>2. QED
        BY <1>3, <3>2, <3>6, <4>1 DEF SettledIsSingle
    <3>7. CASE g = h /\ Callable(a) = {}
      <4>1. op_handle' = op_handle
        BY <2>1, <3>7 DEF svd_i_invite, Set, TypeOK
      <4>2. \A d \in Chan : op_handle'[d] # g
        BY <3>2, <3>7, <4>1 DEF Unbound
      <4>3. QED
        BY <1>5, <3>1, <3>7, <4>2 DEF Single
    <3>8. QED
      BY <3>4, <3>5, <3>6, <3>7
  <2>2. CASE svd_i_cancel(h)
    <3>1. /\ Head(events).h = h /\ stack' = stack
          /\ \A d \in Chan : op_handle'[d] = IF op_handle[d] = h THEN None ELSE op_handle[d]
      BY <2>2 DEF svd_i_cancel, Delivered, Note, Set, Bound
    <3>2. CASE g = h
      <4>1. \A d \in Chan : op_handle'[d] # g
        BY <1>3, <3>1, <3>2
      <4>2. QED
        BY <1>5, <3>1, <3>2, <4>1 DEF Single
    <3>3. CASE g # h
      BY <1>3, <1>4, <1>6, <3>1, <3>3
    <3>4. QED
      BY <3>2, <3>3
  <2>3. CASE svd_i_prack(h)
    <3>1. /\ Head(events).h = h /\ Head(events).ev = "i_prack" /\ op_handle' = op_handle
          /\ stack' = IF Bound(h) = {} THEN nua_handle_destroy(h) ELSE stack
      BY <2>3 DEF svd_i_prack, Delivered, Note, callVars
    <3>2. CASE g = h /\ Bound(h) = {}
      <4>1. \A d \in Chan : op_handle'[d] # g
        BY <3>1, <3>2 DEF Bound
      <4>2. QED
        BY <1>5, <3>1, <3>2, <4>1 DEF Single
    <3>3. CASE g # h \/ Bound(h) # {}
      <4>1. stack'[g] = stack[g]
        BY <1>1, <3>1, <3>3 DEF nua_handle_destroy, StackTypeOK
      <4>2. QED
        BY <1>4, <1>6, <3>1, <4>1
    <3>4. QED
      BY <3>2, <3>3
  <2>4. ASSUME NEW c \in Chan, i_state_terminated(h, c)
        PROVE  ~Waits(g, "i_invite")' /\ Single(g)'
    <3>1. Head(events).ev = "terminated" /\ Head(events).h = h /\ op_handle[c] = h
      BY <2>4 DEF i_state_terminated, Delivered, Note, CallEnds, IsFirst, Bound
    <3>2. \A d \in Chan : op_handle'[d] \in {None, op_handle[d]}
      BY <2>4, ClearCallFacts DEF i_state_terminated
    <3>3. stack' = nua_handle_destroy(h)
      BY <2>4, <3>1, ChanAssumption DEF i_state_terminated, svd_clear_call
    <3>4. CASE g # h
      <4>1. stack'[g] = stack[g]
        BY <1>1, <3>3, <3>4 DEF nua_handle_destroy, StackTypeOK
      <4>2. QED
        BY <1>3, <1>4, <1>6, <3>1, <3>2, <4>1
    <3>5. CASE g = h
      <4>2. Single(g)
        BY <1>1, <1>3, <3>1, <3>5, EndIsOfOneChannel
      <4>3. Single(g)'
        BY <1>3, <3>2, <4>2 DEF Single
      <4>4. QED
        BY <1>5, <3>1, <3>5, <4>3
    <3>6. QED
      BY <3>4, <3>5
  <2>5. ASSUME UNCHANGED op_handle, Head(events).ev \notin {"i_cancel"},
               \/ stack' = stack
               \/ stack' = nua_ack(h)
               \/ stack' = nua_authenticate(h)
        PROVE  ~Waits(g, "i_invite")' /\ Single(g)'
    <3>1. stack[g] \notin Early
      BY <1>1, <1>4, <2>5
         DEF nua_ack, nua_authenticate, Move, StackTypeOK, Early
    <3>2. QED
      BY <1>6, <2>5, <3>1
  <2>6. CASE Ignored(h)
    <3>1. PICK ev \in EventKind \ {"i_invite", "i_cancel", "i_prack"} : Delivered(h, ev)
      BY <2>6 DEF Ignored
    <3>2. Head(events).ev = ev
      BY <3>1 DEF Delivered, Note
    <3>3. QED
      BY <2>5, <2>6, <3>2 DEF Ignored, callVars
  <2>7. ASSUME NEW c \in Chan,
               \/ i_state_received(h, c)
               \/ i_state_proceeding(h, c)
               \/ i_state_completing(h, c)
               \/ i_state_ready(h, c)
               \/ \E challenge \in BOOLEAN : svd_r_invite_auth(h, c, challenge)
               \/ svd_r_invite_busy(h, c)
        PROVE  ~Waits(g, "i_invite")' /\ Single(g)'
    <3>1. op_handle' = op_handle
      BY <2>7 DEF i_state_received, i_state_proceeding, i_state_completing,
         i_state_ready, svd_r_invite_auth, svd_r_invite_busy, callVars
    <3>2. Head(events).ev # "i_cancel"
      BY <2>7 DEF i_state_received, i_state_proceeding, i_state_completing,
         i_state_ready, svd_r_invite_auth, svd_r_invite_busy, State, Delivered, Note
    <3>3. stack' = stack \/ stack' = nua_ack(h) \/ stack' = nua_authenticate(h)
      BY <2>7 DEF i_state_received, i_state_proceeding, i_state_completing,
         i_state_ready, svd_r_invite_auth, svd_r_invite_busy
    <3>4. QED
      BY <2>5, <3>1, <3>2, <3>3
  <2>8. QED
    BY <1>8, <2>1, <2>2, <2>3, <2>4, <2>6, <2>7 DEF Deliver
<1>9. QED
  BY <1>7, <1>8 DEF svd_nua_callback

LEMMA CallbackKeepsHandles ==
  ASSUME TypeOK, AnswererInv, HandleInv, svd_nua_callback
  PROVE  NoDanglingHandle'
<1>1. events # << >> /\ events' = Tail(events) /\ StackTypeOK /\ events' # events
  BY CallbackTakes DEF TypeOK, StackTypeOK
<1>2. CancelBeforeEnd /\ SettledIsSingle /\ NoDanglingHandle
  BY DEF HandleInv
<1>3. SUFFICES ASSUME NEW d \in Chan, NEW g \in Handle, op_handle'[d] = g
               PROVE  stack'[g] # "destroyed"
  BY CallbackType DEF NoDanglingHandle, TypeOK
<1>4. g # None
  BY ChanAssumption
<1>5. CASE Dropped
  BY <1>2, <1>3, <1>4, <1>5 DEF Dropped, callVars, NoDanglingHandle
<1>6. ASSUME NEW h \in Handle, Deliver(h)
      PROVE  stack'[g] # "destroyed"
  <2>1. ASSUME NEW ev, Delivered(h, ev)
        PROVE  /\ stack[h] # "destroyed" /\ Head(events).h = h /\ Head(events).ev = ev
               /\ stack[g] # "destroyed"
    <3>1. stack[h] # "destroyed" /\ Head(events).h = h /\ Head(events).ev = ev
      BY <2>1 DEF Delivered, Note
    <3>2. op_handle[d] = g \/ Head(events) = Note(g, "i_invite")
      BY <1>1, <1>3, <1>4, CallbackGets DEF Gets
    <3>3. QED
      BY <1>2, <1>4, <3>1, <3>2 DEF NoDanglingHandle, Note
  <2>2. ASSUME NEW a \in Account \union {None}, svd_i_invite(h, a)
        PROVE  stack'[g] # "destroyed"
    <3>1. Delivered(h, "i_invite")
      BY <2>2 DEF svd_i_invite
    <3>2. Unbound(h)
      <4>1. 1 \in 1 .. Len(events) /\ events[1] = Head(events)
        BY <1>1, TailMovesUp
      <4>2. QED
        BY <2>1, <3>1, <4>1 DEF AnswererInv, NewCallWaits
    <3>3. CASE Callable(a) = {}
      <4>1. op_handle' = op_handle /\ stack' = nua_handle_destroy(h)
        BY <2>2, <3>3 DEF svd_i_invite, Set, TypeOK
      <4>2. g # h
        BY <1>3, <3>2, <4>1 DEF Unbound
      <4>3. QED
        BY <1>1, <2>1, <3>1, <4>1, <4>2 DEF nua_handle_destroy, StackTypeOK
    <3>4. CASE Callable(a) # {}
      BY <2>1, <2>2, <3>1, <3>4 DEF svd_i_invite
    <3>5. QED
      BY <3>3, <3>4
  <2>3. CASE svd_i_cancel(h)
    BY <2>1, <2>3 DEF svd_i_cancel
  <2>4. CASE svd_i_prack(h)
    <3>1. /\ Delivered(h, "i_prack") /\ op_handle' = op_handle
          /\ stack' = IF Bound(h) = {} THEN nua_handle_destroy(h) ELSE stack
      BY <2>4 DEF svd_i_prack, callVars
    <3>2. Bound(h) = {} => g # h
      BY <1>3, <3>1 DEF Bound
    <3>3. QED
      BY <1>1, <2>1, <3>1, <3>2 DEF nua_handle_destroy, StackTypeOK
  <2>5. ASSUME NEW c \in Chan, i_state_terminated(h, c)
        PROVE  stack'[g] # "destroyed"
    <3>1. Delivered(h, "terminated") /\ op_handle[c] = h
      BY <2>5 DEF i_state_terminated, CallEnds, IsFirst, Bound
    <3>2. Single(h)
      BY <1>1, <1>2, <2>1, <3>1, EndIsOfOneChannel
    <3>3. /\ d = c => op_handle'[d] = None
          /\ d # c => op_handle'[d] = op_handle[d]
      BY <2>5, ClearCallFacts DEF i_state_terminated
    <3>4. g # h
      BY <1>3, <1>4, <3>1, <3>2, <3>3 DEF Single
    <3>5. stack' = nua_handle_destroy(h)
      BY <2>5, <3>1, ChanAssumption DEF i_state_terminated, svd_clear_call
    <3>6. QED
      BY <1>1, <2>1, <3>1, <3>4, <3>5 DEF nua_handle_destroy, StackTypeOK
  <2>6. CASE Ignored(h)
    BY <2>1, <2>6 DEF Ignored
  <2>7. ASSUME NEW c \in Chan,
               \/ i_state_received(h, c)
               \/ i_state_proceeding(h, c)
               \/ i_state_completing(h, c)
               \/ i_state_ready(h, c)
               \/ \E challenge \in BOOLEAN : svd_r_invite_auth(h, c, challenge)
               \/ svd_r_invite_busy(h, c)
        PROVE  stack'[g] # "destroyed"
    <3>1. \E ev : Delivered(h, ev)
      BY <2>7 DEF i_state_received, i_state_proceeding, i_state_completing,
         i_state_ready, svd_r_invite_auth, svd_r_invite_busy, State
    <3>2. stack' = stack \/ stack' = nua_ack(h) \/ stack' = nua_authenticate(h)
      BY <2>7 DEF i_state_received, i_state_proceeding, i_state_completing,
         i_state_ready, svd_r_invite_auth, svd_r_invite_busy
    <3>3. QED
      BY <1>1, <2>1, <3>1, <3>2 DEF nua_ack, nua_authenticate, Move, StackTypeOK
  <2>8. QED
    BY <1>6, <2>2, <2>3, <2>4, <2>5, <2>6, <2>7 DEF Deliver
<1>7. QED
  BY <1>5, <1>6 DEF svd_nua_callback

\* A call that rings ends with a CANCEL that is reported, if the peer never
\* ends it otherwise.
LEMMA EarlyCallIsCancelled ==
  ASSUME StackTypeOK, ~ReInvites, ~EarlyEnd, NEW h \in Handle, PeerStep(h),
         stack[h] \in Early
  PROVE  stack'[h] \in Early \/ Waits(h, "i_cancel")'
<1>1. CASE PeerInvites(h) \/ PeerPracks(h)
  BY <1>1 DEF PeerInvites, PeerPracks, Step, StackTypeOK, Early
<1>2. CASE PeerCancels(h)
  <2>1. /\ Len(events) + 1 \in 1 .. Len(events')
        /\ events'[Len(events) + 1].h = h
        /\ events'[Len(events) + 1].ev = "i_cancel"
    <3>1. Step(h, {"received"}, "terminated",
               <<Note(h, "i_cancel"), Note(h, "terminated")>>)
      BY <1>2 DEF PeerCancels
    <3>2. "i_cancel" \in EventKind /\ "terminated" \in EventKind
      BY DEF EventKind
    <3>3. /\ Len(events) \in Nat /\ Len(events') = Len(events) + 2
          /\ events'[Len(events) + 1].h = h
          /\ events'[Len(events) + 1].ev = "i_cancel"
      BY <3>1, <3>2, TwoAdded
    <3>4. QED
      BY <3>3
  <2>2. \E k \in 1 .. Len(events') : events'[k].h = h /\ events'[k].ev = "i_cancel"
    BY <2>1
  <2>3. QED
    BY <2>2 DEF Waits
<1>3. QED
  BY <1>1, <1>2 DEF PeerStep, PeerGivesUp, PeerChallenges, PeerRings,
     PeerAnswers, PeerIsBusy, PeerRefuses, CallIsReady, PeerHangsUp,
     PeerReInvites, EndIsConfirmed, Step, Early

LEMMA PeerKeepsSettled ==
  ASSUME TypeOK, ~ReInvites, ~EarlyEnd, SettledIsSingle, NEW h \in Handle, Peer(h)
  PROVE  SettledIsSingle'
<1>1. op_handle' = op_handle /\ PeerAdds(h) /\ StackTypeOK /\ PeerStep(h)
  BY PeerAddsEvents DEF Peer, callVars, TypeOK
<1>2. SUFFICES ASSUME NEW g \in Handle, Settled(g)'
               PROVE  ~Waits(g, "i_invite")' /\ Single(g)'
  BY DEF SettledIsSingle
<1>3. stack'[g] \notin Early /\ ~Waits(g, "i_cancel")'
  BY <1>2 DEF Settled
<1>4. Waits(g, "i_cancel") => Waits(g, "i_cancel")'
  BY <1>1 DEF PeerAdds, Waits
<1>5. stack[g] \notin Early
  BY <1>1, <1>3, EarlyCallIsCancelled DEF PeerAdds
<1>6. ~Waits(g, "i_invite") /\ Single(g)
  BY <1>3, <1>4, <1>5 DEF Settled, SettledIsSingle
<1>7. ASSUME NEW k \in 1 .. Len(events'), events'[k].h = g,
             events'[k].ev = "i_invite"
      PROVE  FALSE
  <2>1. CASE k \in 1 .. Len(events)
    BY <1>1, <1>6, <1>7, <2>1 DEF PeerAdds, Waits
  <2>2. CASE k \in Added
    BY <1>1, <1>5, <1>7, <2>2 DEF PeerAdds, Early
  <2>3. QED
    BY <2>1, <2>2 DEF Added
<1>8. QED
  BY <1>1, <1>6, <1>7 DEF Waits, Single

LEMMA PeerKeepsHandles ==
  ASSUME TypeOK, NoDanglingHandle, NEW h \in Handle, Peer(h)
  PROVE  NoDanglingHandle'
<1>1. op_handle' = op_handle
  BY DEF Peer, callVars
<1>2. \A g \in Handle : stack[g] # "destroyed" => stack'[g] # "destroyed"
  BY DEF Peer, TypeOK, StackTypeOK, PeerStep, PeerInvites, PeerCancels,
     PeerPracks, PeerGivesUp, PeerChallenges, PeerRings, PeerAnswers,
     PeerIsBusy, PeerRefuses, CallIsReady, PeerHangsUp, PeerReInvites,
     EndIsConfirmed, Step
<1>3. QED
  BY <1>1, <1>2 DEF NoDanglingHandle, TypeOK

LEMMA HandleInvariant ==
  ASSUME ~ReInvites, ~EarlyEnd PROVE Spec => []HandleInv
<1>1. TypeOK /\ Init => HandleInv
  BY DEF Init, StackInit, HandleInv, CancelBeforeEnd, SettledIsSingle, Settled,
     Early, NoDanglingHandle
<1>2. TypeOK /\ CallInv /\ KnownInv /\ AnswererInv /\ HandleInv /\ [Next]_vars
        => HandleInv'
  <2>1. SUFFICES ASSUME TypeOK, CallInv, KnownInv, AnswererInv, HandleInv,
                        [Next]_vars
                 PROVE  HandleInv'
    OBVIOUS
  <2>2. /\ Onward /\ StackTypeOK
        /\ CancelBeforeEnd /\ SettledIsSingle /\ NoDanglingHandle
    BY <2>1, NextOnward DEF TypeOK, HandleInv
  <2>3. ASSUME NEW c \in Chan, Phone(c) \/ dtmf_timer_cb(c)
        PROVE  HandleInv'
    <3>1. events' = events
      BY <2>1, <2>3, PhoneGets
    <3>2. CancelBeforeEnd'
      BY <2>2, <3>1, ProgramKeepsCancels
    <3>3. SettledIsSingle'
      BY <2>1, <2>2, <2>3, PhoneKeepsSettled
    <3>4. NoDanglingHandle'
      BY <2>1, <2>2, <2>3, PhoneKeepsHandles
    <3>5. QED
      BY <3>2, <3>3, <3>4 DEF HandleInv
  <2>4. CASE svd_nua_callback
    <3>1. events # << >> /\ events' = Tail(events)
      BY <2>4, CallbackTakes
    <3>2. CancelBeforeEnd'
      BY <2>2, <3>1, ProgramKeepsCancels
    <3>3. QED
      BY <2>1, <2>4, <3>2, CallbackKeepsSettled, CallbackKeepsHandles DEF HandleInv
  <2>5. ASSUME NEW h \in Handle, Peer(h)
        PROVE  HandleInv'
    <3>1. CancelBeforeEnd'
      BY <2>2, <2>5, PeerKeepsCancels DEF Peer
    <3>2. QED
      BY <2>1, <2>2, <2>5, <3>1, PeerKeepsSettled, PeerKeepsHandles DEF HandleInv
  <2>6. CASE UNCHANGED vars
    BY <2>1, <2>6 DEF vars, stackVars, callVars, HandleInv, CancelBeforeEnd,
       SettledIsSingle, Settled, Waits, Single, NoDanglingHandle
  <2>7. QED
    BY <2>1, <2>3, <2>4, <2>5, <2>6 DEF Next
<1>3. QED
  BY <1>1, <1>2, TypeCorrect, CallInvariant, KnownInvariant, AnswererInvariant,
     PTL DEF Spec

\* No channel keeps a handle that svd gave to nua_handle_destroy, as long as
\* the peer sends no INVITE inside a call and cancels the calls it gives up.
THEOREM NoHandleDangles ==
  ASSUME ~ReInvites, ~EarlyEnd PROVE Spec => []NoDanglingHandle
<1>1. HandleInv => NoDanglingHandle
  BY DEF HandleInv
<1>2. QED
  BY <1>1, HandleInvariant, PTL

-----------------------------------------------------------------------------
(***************************************************************************)
(* One phone.  Picking up clears no other channel, so a phone that rings   *)
(* has a call, and so has a coder that runs, but for what a failing ioctl  *)
(* has left running.                                                       *)
(***************************************************************************)
LEMMA OnePhone ==
  ASSUME NumChans = 1, NEW c \in Chan, NEW d \in Chan PROVE c = d
  BY DEF Chan

LEMMA PhoneKeepsRinging ==
  ASSUME NumChans = 1, TypeOK, CallInv, RingingHasCall,
         NEW c \in Chan, Phone(c) \/ dtmf_timer_cb(c)
  PROVE  RingingHasCall'
<1>1. SUFFICES ASSUME ring'[c]
               PROVE  op_handle'[c] # None /\ ~off_hook'[c]
  BY OnePhone DEF RingingHasCall
<1>2. ASSUME NEW feedOK \in BOOLEAN, NEW answerOK \in BOOLEAN,
             svd_handle_event_FXS_OFFHOOK(c, feedOK, answerOK)
      PROVE  FALSE
  BY <1>1, <1>2 DEF svd_handle_event_FXS_OFFHOOK, Set, Bound, RingingHasCall
<1>3. CASE off_hook[c] /\ ring' = ring
  BY <1>1, <1>3 DEF RingingHasCall
<1>4. QED
  BY <1>2, <1>3
     DEF Phone, dtmf_timer_cb, svd_handle_event_FXS_ONHOOK,
         svd_handle_event_FXS_DIGIT_X, Hash, PlaceCall, CallInv,
         DialTimerOnlyWhenIdle

LEMMA CallbackKeepsRinging ==
  ASSUME NumChans = 1, TypeOK, RingingHasCall, svd_nua_callback
  PROVE  RingingHasCall'
<1>1. SUFFICES ASSUME NEW d \in Chan, ring'[d]
               PROVE  op_handle'[d] # None /\ ~off_hook'[d]
  BY DEF RingingHasCall
<1>2. CASE UNCHANGED <<ring, op_handle, off_hook>>
  BY <1>1, <1>2 DEF RingingHasCall
<1>3. ASSUME NEW h \in Handle, Deliver(h), ~UNCHANGED <<ring, op_handle, off_hook>>
      PROVE  op_handle'[d] # None /\ ~off_hook'[d]
  <2>1. ASSUME NEW a \in Account \union {None}, svd_i_invite(h, a)
        PROVE  op_handle'[d] # None /\ ~off_hook'[d]
    BY <1>1, <2>1, ChanAssumption
       DEF svd_i_invite, Set, Callable, RingingHasCall
  <2>2. CASE svd_i_cancel(h)
    BY <1>1, <2>2 DEF svd_i_cancel, Set, Bound, RingingHasCall
  <2>3. ASSUME NEW c \in Chan, i_state_terminated(h, c)
        PROVE  FALSE
    <3>1. c = d
      BY OnePhone
    <3>2. QED
      BY <1>1, <2>3, <3>1 DEF i_state_terminated, RingEnds, TypeOK
  <2>4. QED
    BY <1>3, <2>1, <2>2, <2>3
       DEF Deliver, svd_i_prack, Ignored, i_state_received, i_state_proceeding,
           i_state_completing, i_state_ready, svd_r_invite_auth,
           svd_r_invite_busy, callVars, lineVars
<1>4. QED
  BY <1>2, <1>3 DEF svd_nua_callback, Dropped, callVars, lineVars

\* A phone that rings is on the hook and has a call that it can answer, when
\* there is no other phone whose answer clears its channel.
THEOREM RingsForCall ==
  ASSUME NumChans = 1 PROVE Spec => []RingingHasCall
<1>1. Init => RingingHasCall
  BY DEF Init, RingingHasCall
<1>2. TypeOK /\ CallInv /\ RingingHasCall /\ [Next]_vars => RingingHasCall'
  <2>1. SUFFICES ASSUME TypeOK, CallInv, RingingHasCall, [Next]_vars
                 PROVE  RingingHasCall'
    OBVIOUS
  <2>2. CASE UNCHANGED <<callVars, lineVars>>
    BY <2>1, <2>2 DEF callVars, lineVars, RingingHasCall
  <2>3. QED
    BY <2>1, <2>2, PhoneKeepsRinging, CallbackKeepsRinging DEF Next, Peer, vars
<1>3. QED
  BY <1>1, <1>2, TypeCorrect, CallInvariant, PTL DEF Spec

\* A call that rings, or whose CANCEL waits, was never answered: no news of the
\* answer waits, and no coder runs for it (but what a failed switch has left).
Quiet(h) ==
  stack[h] \in Early \/ Waits(h, "i_cancel")
    => /\ ~Waits(h, "ready")
       /\ \A c \in Chan : op_handle[c] = h => ~Coding(c)

EarlyIsQuiet == \A h \in Handle : Quiet(h)

\* What is_up says is what the coders do, after a switch that succeeded: only
\* then does a stop that finds is_up at 0 leave nothing running.
UpIsCoding == \A c \in Chan : switched[c] => (is_up[c] <=> coders[c] # {})

MediaInv == CancelBeforeEnd /\ EarlyIsQuiet /\ MediaOnlyInCall /\ UpIsCoding

LEMMA SwitchKeepsUp ==
  ASSUME TypeOK, UpIsCoding, NEW c \in Chan, NEW up \in BOOLEAN,
         NEW fails \in SUBSET Coder, ab_chan_media_switch(c, up, fails)
  PROVE  /\ UpIsCoding'
         /\ ~up => ~Coding(c)'
         /\ \A d \in Chan : d # c => (Coding(d)' <=> Coding(d))
<1>1. CASE is_up[c] = up
  BY <1>1 DEF ab_chan_media_switch, mediaVars, UpIsCoding, Coding
<1>2. CASE is_up[c] # up
  <2>1. \A d \in Chan : d # c => /\ is_up'[d] = is_up[d]
                                 /\ coders'[d] = coders[d]
                                 /\ switched'[d] = switched[d]
    BY <1>2 DEF ab_chan_media_switch, TypeOK
  <2>2. /\ switched'[c] = (fails = {})
        /\ is_up'[c] = IF fails = {} THEN up ELSE is_up[c]
        /\ coders'[c] = IF up THEN Started(c, fails) ELSE Stopped(c, fails)
    BY <1>2 DEF ab_chan_media_switch, TypeOK
  <2>3. fails = {} => /\ Started(c, fails) # {}
                      /\ Stopped(c, fails) = {}
    BY DEF Started, Stopped, Coder
  <2>4. switched'[c] => /\ is_up'[c] = up
                        /\ up <=> coders'[c] # {}
    BY <2>2, <2>3
  <2>5. QED
    BY <2>1, <2>4 DEF UpIsCoding, Coding
<1>3. QED
  BY <1>1, <1>2

LEMMA MediaKeepsUp ==
  ASSUME TypeOK, UpIsCoding, NEW c \in Chan,
         ab_chan_media_activate(c) \/ ab_chan_media_deactivate(c)
  PROVE  /\ UpIsCoding'
         /\ ab_chan_media_deactivate(c) => ~Coding(c)'
         /\ \A d \in Chan : d # c => (Coding(d)' <=> Coding(d))
<1>1. CoderFails \subseteq Coder
  BY ChanAssumption
<1>2. CASE ab_chan_media_deactivate(c)
  <2>1. PICK fails \in SUBSET Coder : ab_chan_media_switch(c, FALSE, fails)
    BY <1>1, <1>2 DEF ab_chan_media_deactivate
  <2>2. QED
    BY <2>1, SwitchKeepsUp
<1>3. CASE ab_chan_media_activate(c) /\ ~ab_chan_media_deactivate(c)
  <2>1. CASE UNCHANGED mediaVars
    BY <1>3, <2>1 DEF mediaVars, UpIsCoding, Coding
  <2>2. ASSUME NEW fails \in SUBSET Coder, ab_chan_media_switch(c, TRUE, fails)
        PROVE  /\ UpIsCoding'
               /\ \A d \in Chan : d # c => (Coding(d)' <=> Coding(d))
    BY <2>2, SwitchKeepsUp
  <2>3. QED
    BY <1>1, <1>3, <2>1, <2>2 DEF ab_chan_media_activate
<1>4. QED
  BY <1>2, <1>3

\* A step that leaves the coders alone changes nothing of the above.
LEMMA MediaStays ==
  ASSUME UNCHANGED mediaVars
  PROVE  /\ UpIsCoding => UpIsCoding'
         /\ \A d \in Chan : Coding(d)' <=> Coding(d)
  BY DEF mediaVars, UpIsCoding, Coding

LEMMA PhoneKeepsMedia ==
  ASSUME NumChans = 1, TypeOK, CallInv, MediaInv,
         NEW c \in Chan, Phone(c) \/ dtmf_timer_cb(c)
  PROVE  MediaInv'
<1>1. events' = events /\ UNCHANGED mediaVars
  BY PhoneGets DEF Phone, dtmf_timer_cb, svd_handle_event_FXS_OFFHOOK,
     svd_handle_event_FXS_ONHOOK, svd_handle_event_FXS_DIGIT_X, Hash, PlaceCall
<1>2. Onward /\ StackTypeOK
  BY PhoneOnward DEF TypeOK
<1>3. CancelBeforeEnd' /\ UpIsCoding'
  BY <1>1, <1>2, ProgramKeepsCancels, MediaStays DEF MediaInv
<1>4. ASSUME NEW d \in Chan, Coding(d)
      PROVE  op_handle'[d] = op_handle[d] /\ op_handle[d] # None
  <2>1. d = c /\ op_handle[c] # None
    BY <1>4, OnePhone DEF MediaInv, MediaOnlyInCall
  <2>2. ASSUME NEW feedOK \in BOOLEAN, NEW answerOK \in BOOLEAN,
               svd_handle_event_FXS_OFFHOOK(c, feedOK, answerOK)
        PROVE  op_handle'[c] = op_handle[c]
    BY <2>2 DEF svd_handle_event_FXS_OFFHOOK, Set, Others
  <2>3. CASE svd_handle_event_FXS_ONHOOK(c)
    BY <2>1, <2>3 DEF svd_handle_event_FXS_ONHOOK, svd_bye
  <2>4. QED
    BY <2>1, <2>2, <2>3
       DEF Phone, dtmf_timer_cb, svd_handle_event_FXS_DIGIT_X, Hash, CallInv,
           DialTimerOnlyWhenIdle
<1>5. MediaOnlyInCall'
  BY <1>1, <1>4, MediaStays DEF MediaOnlyInCall
<1>6. EarlyIsQuiet'
  <2>1. SUFFICES ASSUME NEW h \in Handle,
                        stack'[h] \in Early \/ Waits(h, "i_cancel")'
                 PROVE  /\ ~Waits(h, "ready")'
                        /\ \A d \in Chan : op_handle'[d] = h => ~Coding(d)'
    BY DEF EarlyIsQuiet, Quiet
  <2>2. stack[h] \in Early \/ Waits(h, "i_cancel")
    BY <1>1, <1>2, <2>1 DEF Onward, Waits
  <2>3. /\ ~Waits(h, "ready")
        /\ \A d \in Chan : op_handle[d] = h => ~Coding(d)
    BY <2>2 DEF MediaInv, EarlyIsQuiet, Quiet
  <2>4. QED
    BY <1>1, <1>4, <2>3, MediaStays DEF Waits
<1>7. QED
  BY <1>3, <1>5, <1>6 DEF MediaInv

\* Whatever the stack reports, a coder starts with the news that the call is
\* ready, and a handle goes with the coder off or with a CANCEL.
LEMMA CallbackMedia ==
  ASSUME TypeOK, UpIsCoding, svd_nua_callback, NEW d \in Chan, Coding(d)'
  PROVE  /\ \/ Coding(d)
            \/ /\ op_handle'[d] = op_handle[d] /\ op_handle[d] # None
               /\ Head(events) = Note(op_handle[d], "ready")
         /\ \/ op_handle'[d] # None
            \/ op_handle'[d] = op_handle[d]
            \/ op_handle[d] \in Handle /\ Head(events) = Note(op_handle[d], "i_cancel")
<1>1. CASE UNCHANGED <<op_handle, mediaVars>>
  BY <1>1, MediaStays
<1>2. ASSUME NEW h \in Handle, Deliver(h), ~UNCHANGED <<op_handle, mediaVars>>
      PROVE  /\ \/ Coding(d)
                \/ /\ op_handle'[d] = op_handle[d] /\ op_handle[d] # None
                   /\ Head(events) = Note(op_handle[d], "ready")
             /\ \/ op_handle'[d] # None
                \/ op_handle'[d] = op_handle[d]
                \/ op_handle[d] \in Handle /\ Head(events) = Note(op_handle[d], "i_cancel")
  <2>0. h # None
    BY ChanAssumption
  <2>1. ASSUME NEW a \in Account \union {None}, svd_i_invite(h, a)
        PROVE  UNCHANGED mediaVars /\ op_handle'[d] \in {h, op_handle[d]}
    BY <2>1 DEF svd_i_invite, Set
  <2>2. CASE svd_i_cancel(h)
    <3>1. /\ UNCHANGED mediaVars /\ Head(events) = Note(h, "i_cancel")
          /\ op_handle'[d] = IF op_handle[d] = h THEN None ELSE op_handle[d]
      BY <2>2 DEF svd_i_cancel, Delivered, Set, Bound
    <3>2. QED
      BY <3>1, MediaStays
  <2>3. ASSUME NEW c \in Chan, i_state_ready(h, c)
        PROVE  /\ op_handle' = op_handle /\ Head(events) = Note(h, "ready")
               /\ op_handle[c] = h
               /\ d # c => (Coding(d)' <=> Coding(d))
    BY <2>3, MediaKeepsUp DEF i_state_ready, State, IsFirst, Bound, Delivered
  <2>4. ASSUME NEW c \in Chan, i_state_terminated(h, c)
        PROVE  d # c /\ (Coding(d)' <=> Coding(d)) /\ op_handle'[d] = op_handle[d]
    BY <2>4, ClearCallFacts, MediaKeepsUp DEF i_state_terminated
  <2>5. CASE \E a \in Account \union {None} : svd_i_invite(h, a)
    BY <2>0, <2>1, <2>5, MediaStays
  <2>6. CASE \E c \in Chan : i_state_ready(h, c)
    <3>1. PICK c \in Chan : i_state_ready(h, c)
      BY <2>6
    <3>2. /\ op_handle' = op_handle /\ Head(events) = Note(h, "ready")
          /\ op_handle[c] = h
          /\ d # c => (Coding(d)' <=> Coding(d))
      BY <2>3, <3>1
    <3>3. CASE d = c
      BY <2>0, <3>2, <3>3
    <3>4. CASE d # c
      BY <3>2, <3>4
    <3>5. QED
      BY <3>3, <3>4
  <2>7. CASE \E c \in Chan : i_state_terminated(h, c)
    BY <2>4, <2>7
  <2>8. QED
    BY <1>2, <2>2, <2>5, <2>6, <2>7
       DEF Deliver, svd_i_prack, Ignored, i_state_received, i_state_proceeding,
           i_state_completing, svd_r_invite_auth, svd_r_invite_busy, callVars,
           lineVars
<1>3. QED
  BY <1>1, <1>2 DEF svd_nua_callback, Dropped, callVars, lineVars

LEMMA CallbackKeepsUp ==
  ASSUME TypeOK, UpIsCoding, svd_nua_callback
  PROVE  UpIsCoding'
<1>1. CASE UNCHANGED mediaVars
  BY <1>1, MediaStays
<1>2. ASSUME NEW c \in Chan,
             ab_chan_media_activate(c) \/ ab_chan_media_deactivate(c)
      PROVE  UpIsCoding'
  BY <1>2, MediaKeepsUp
<1>3. QED
  BY <1>1, <1>2
     DEF svd_nua_callback, Dropped, Deliver, svd_i_invite, svd_i_cancel,
         svd_i_prack, Ignored, i_state_received, i_state_proceeding,
         i_state_completing, i_state_ready, i_state_terminated,
         svd_r_invite_auth, svd_r_invite_busy, lineVars

LEMMA CallbackKeepsMedia ==
  ASSUME TypeOK, MediaInv, svd_nua_callback
  PROVE  MediaInv'
<1>1. events # << >> /\ events' = Tail(events) /\ Onward /\ StackTypeOK
  BY CallbackTakes, CallbackOnward DEF TypeOK
<1>2. 1 \in 1 .. Len(events) /\ events[1] = Head(events)
  BY <1>1, TailMovesUp
<1>3. CancelBeforeEnd /\ EarlyIsQuiet /\ MediaOnlyInCall /\ UpIsCoding
  BY DEF MediaInv
<1>4. CancelBeforeEnd' /\ UpIsCoding'
  BY <1>1, <1>3, ProgramKeepsCancels, CallbackKeepsUp
<1>5. ASSUME NEW ev, NEW h \in Handle, Head(events) = Note(h, ev)
      PROVE  Waits(h, ev)
  BY <1>2, <1>5 DEF Waits, Note
<1>6. MediaOnlyInCall'
  <2>1. SUFFICES ASSUME NEW d \in Chan, Coding(d)', op_handle'[d] = None
                 PROVE  FALSE
    BY DEF MediaOnlyInCall
  <2>2. Coding(d)
    BY <1>3, <2>1, CallbackMedia
  <2>3. op_handle[d] # None
    BY <1>3, <2>2 DEF MediaOnlyInCall
  <2>4. op_handle[d] \in Handle /\ Waits(op_handle[d], "i_cancel")
    BY <1>3, <1>5, <2>1, <2>3, CallbackMedia
  <2>5. QED
    BY <1>3, <2>2, <2>4 DEF EarlyIsQuiet, Quiet
<1>7. EarlyIsQuiet'
  <2>1. SUFFICES ASSUME NEW h \in Handle,
                        stack'[h] \in Early \/ Waits(h, "i_cancel")'
                 PROVE  /\ ~Waits(h, "ready")'
                        /\ \A d \in Chan : op_handle'[d] = h => ~Coding(d)'
    BY DEF EarlyIsQuiet, Quiet
  <2>2. stack[h] \in Early \/ Waits(h, "i_cancel")
    BY <1>1, <2>1, TailWaits DEF Onward
  <2>3. /\ ~Waits(h, "ready")
        /\ \A d \in Chan : op_handle[d] = h => ~Coding(d)
    BY <1>3, <2>2 DEF EarlyIsQuiet, Quiet
  <2>4. ~Waits(h, "ready")'
    BY <1>1, <2>3, TailWaits
  <2>5. ASSUME NEW d \in Chan, op_handle'[d] = h, Coding(d)'
        PROVE  FALSE
    <3>1. CASE Coding(d)
      <4>1. op_handle[d] # None /\ op_handle[d] # h /\ h # None
        BY <1>3, <2>3, <3>1, ChanAssumption DEF MediaOnlyInCall
      <4>2. QED
        BY <2>5, <4>1, CallbackGets DEF Gets
    <3>2. CASE ~Coding(d)
      BY <1>3, <1>5, <2>3, <2>5, <3>2, CallbackMedia
    <3>3. QED
      BY <3>1, <3>2
  <2>6. QED
    BY <2>4, <2>5
<1>8. QED
  BY <1>4, <1>6, <1>7 DEF MediaInv

LEMMA PeerKeepsMedia ==
  ASSUME TypeOK, MediaInv, NEW h \in Handle, Peer(h)
  PROVE  MediaInv'
<1>1. UNCHANGED <<op_handle, mediaVars>> /\ PeerAdds(h) /\ StackTypeOK /\ Onward
  BY PeerAddsEvents, PeerOnward DEF Peer, callVars, lineVars, TypeOK
<1>2. CancelBeforeEnd /\ EarlyIsQuiet /\ MediaOnlyInCall /\ UpIsCoding
  BY DEF MediaInv
<1>3. CancelBeforeEnd' /\ UpIsCoding'
  BY <1>1, <1>2, PeerKeepsCancels, MediaStays DEF Peer
<1>4. ASSUME NEW g \in Handle, stack'[g] \in Early \/ Waits(g, "i_cancel")'
      PROVE  /\ ~Waits(g, "ready")'
             /\ \A d \in Chan : op_handle[d] = g => ~Coding(d)
  <2>1. stack[g] \in Early \/ Waits(g, "i_cancel")
    <3>1. CASE stack'[g] \in Early
      BY <1>1, <3>1 DEF Onward
    <3>2. ASSUME NEW k \in 1 .. Len(events'), events'[k].h = g,
                 events'[k].ev = "i_cancel"
          PROVE  stack[g] \in Early \/ Waits(g, "i_cancel")
      <4>1. CASE k \in 1 .. Len(events)
        BY <1>1, <3>2, <4>1 DEF PeerAdds, Waits
      <4>2. CASE k \in Added
        BY <1>1, <3>2, <4>2 DEF PeerAdds, Early
      <4>3. QED
        BY <4>1, <4>2 DEF Added
    <3>3. QED
      BY <1>4, <3>1, <3>2 DEF Waits
  <2>2. /\ ~Waits(g, "ready")
        /\ \A d \in Chan : op_handle[d] = g => ~Coding(d)
    BY <1>2, <2>1 DEF EarlyIsQuiet, Quiet
  <2>3. stack[g] \in Early \union Ended
    BY <1>2, <2>1 DEF CancelBeforeEnd, Waits
  <2>4. ASSUME NEW k \in 1 .. Len(events'), events'[k].h = g, events'[k].ev = "ready"
        PROVE  FALSE
    <3>1. CASE k \in 1 .. Len(events)
      BY <1>1, <2>2, <2>4, <3>1 DEF PeerAdds, Waits
    <3>2. CASE k \in Added
      BY <1>1, <2>3, <2>4, <3>2 DEF PeerAdds
    <3>3. QED
      BY <3>1, <3>2 DEF Added
  <2>5. QED
    BY <2>2, <2>4 DEF Waits
<1>5. EarlyIsQuiet'
  BY <1>1, <1>4, MediaStays DEF EarlyIsQuiet, Quiet
<1>6. QED
  BY <1>1, <1>2, <1>3, <1>5, MediaStays DEF MediaInv, MediaOnlyInCall

\* With one phone a coder of the line only runs while the line has a call, if
\* the last switch that started or stopped coders had no failing ioctl: every
\* way to lose the call finds the coders off or turns them off.
THEOREM MediaHasCall ==
  ASSUME NumChans = 1 PROVE Spec => []MediaOnlyInCall
<1>1. TypeOK /\ Init => MediaInv
  BY DEF Init, StackInit, MediaInv, CancelBeforeEnd, EarlyIsQuiet, Quiet, Waits,
     MediaOnlyInCall, UpIsCoding, Coding
<1>2. TypeOK /\ CallInv /\ MediaInv /\ [Next]_vars => MediaInv'
  <2>1. SUFFICES ASSUME TypeOK, CallInv, MediaInv, [Next]_vars
                 PROVE  MediaInv'
    OBVIOUS
  <2>2. CASE UNCHANGED vars
    BY <2>1, <2>2, MediaStays DEF vars, stackVars, callVars, lineVars, MediaInv,
       CancelBeforeEnd, EarlyIsQuiet, Quiet, Waits, MediaOnlyInCall
  <2>3. QED
    BY <2>1, <2>2, PhoneKeepsMedia, CallbackKeepsMedia, PeerKeepsMedia DEF Next
<1>3. MediaInv => MediaOnlyInCall
  BY DEF MediaInv
<1>4. QED
  BY <1>1, <1>2, <1>3, TypeCorrect, CallInvariant, PTL DEF Spec
=============================================================================
