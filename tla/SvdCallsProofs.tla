--------------------------- MODULE SvdCallsProofs ---------------------------
(***************************************************************************)
(* Proofs about SvdCalls for any number of channels, accounts and calls,   *)
(* any digit buffer and any bound on the event queue.                      *)
(***************************************************************************)
EXTENDS SvdCalls, TLAPS

-----------------------------------------------------------------------------
(* The commands and the helpers keep the types of what they compute.       *)

LEMMA MoveType ==
  ASSUME stack \in [Handle -> StackState], NEW h \in Handle,
         NEW from, NEW to \in StackState
  PROVE  Move(h, from, to) \in [Handle -> StackState]
  BY DEF Move

\* Whatever the program tells the stack, the sessions stay in known states.
LEMMA CommandType ==
  ASSUME stack \in [Handle -> StackState], NEW h \in Handle
  PROVE  /\ nua_respond_ok(h) \in [Handle -> StackState]
         /\ nua_respond_error(h) \in [Handle -> StackState]
         /\ nua_ack(h) \in [Handle -> StackState]
         /\ nua_authenticate(h) \in [Handle -> StackState]
         /\ nua_bye(h) \in [Handle -> StackState]
         /\ nua_invite(h) \in [Handle -> StackState]
         /\ nua_handle_destroy(h) \in [Handle -> StackState]
  BY MoveType DEF nua_respond_ok, nua_respond_error, nua_ack, nua_authenticate,
     nua_bye, nua_invite, nua_handle_destroy, StackState

\* svd_clear_call keeps every field it touches in its type.
LEMMA ClearType ==
  ASSUME TypeOK, NEW C, ClearFields(C)
  PROVE  /\ account' \in [Chan -> Account \union {None}]
         /\ call_established' \in [Chan -> BOOLEAN]
         /\ num_digits' \in [Chan -> 0 .. MaxDigits - 1]
         /\ remote' \in [Chan -> BOOLEAN]
<1>1. 0 \in 0 .. MaxDigits - 1
  BY ChanAssumption
<1>2. QED
  BY <1>1 DEF TypeOK, ClearFields, EndCall, ForgetPeer, Set

LEMMA ClearCallType ==
  ASSUME TypeOK, NEW c \in Chan, svd_clear_call(c)
  PROVE  /\ account' \in [Chan -> Account \union {None}]
         /\ call_established' \in [Chan -> BOOLEAN]
         /\ num_digits' \in [Chan -> 0 .. MaxDigits - 1]
         /\ remote' \in [Chan -> BOOLEAN]
         /\ op_handle' \in [Chan -> Handle \union {None}]
         /\ stack' \in [Handle -> StackState]
  BY ClearType, CommandType DEF TypeOK, StackTypeOK, svd_clear_call, Forget

-----------------------------------------------------------------------------
(* Type correctness.                                                       *)

\* A step of the peer or of the stack keeps the sessions and the queue typed.
LEMMA StepType ==
  ASSUME StackTypeOK, NEW h \in Handle, NEW from, NEW to \in StackState,
         NEW evs \in Seq(Event), Step(h, from, to, evs)
  PROVE  StackTypeOK'
  BY DEF StackTypeOK, Step

LEMMA NoteType ==
  ASSUME NEW h \in Handle, NEW ev \in EventKind
  PROVE  Note(h, ev) \in Event
  BY DEF Note, Event

LEMMA PeerType ==
  ASSUME StackTypeOK, NEW h \in Handle, PeerStep(h)
  PROVE  StackTypeOK'
<1>1. \A ev \in EventKind : <<Note(h, ev)>> \in Seq(Event)
  BY NoteType
<1>2. \A ev1, ev2 \in EventKind : <<Note(h, ev1), Note(h, ev2)>> \in Seq(Event)
  BY NoteType
<1>3. ASSUME NEW ev \in EventKind, NEW from, NEW to \in StackState,
             Step(h, from, to, <<Note(h, ev)>>)
      PROVE  StackTypeOK'
  BY <1>1, <1>3, StepType
<1>4. ASSUME NEW ev1 \in EventKind, NEW ev2 \in EventKind, NEW from,
             NEW to \in StackState,
             Step(h, from, to, <<Note(h, ev1), Note(h, ev2)>>)
      PROVE  StackTypeOK'
  BY <1>2, <1>4, StepType
<1>5. CASE PeerInvites(h) \/ PeerCancels(h) \/ PeerIsBusy(h)
             \/ PeerReInvites(h)
  BY <1>4, <1>5
     DEF PeerInvites, PeerCancels, PeerIsBusy, PeerReInvites, EventKind,
         StackState
<1>6. CASE PeerPracks(h) \/ PeerGivesUp(h) \/ PeerChallenges(h)
             \/ PeerRings(h) \/ PeerAnswers(h)
  BY <1>3, <1>6
     DEF PeerPracks, PeerGivesUp, PeerChallenges, PeerRings, PeerAnswers,
         EventKind, StackState
<1>7. CASE PeerRefuses(h) \/ CallIsReady(h) \/ PeerHangsUp(h)
             \/ EndIsConfirmed(h)
  BY <1>3, <1>7
     DEF PeerRefuses, CallIsReady, PeerHangsUp, EndIsConfirmed, EventKind,
         StackState
<1>8. QED
  BY <1>5, <1>6, <1>7, Zenon DEF PeerStep

\* What is left of the queue after a delivery is a queue of events.
LEMMA TailType ==
  ASSUME StackTypeOK, events # << >>, events' = Tail(events)
  PROVE  events' \in Seq(Event)
  BY DEF StackTypeOK

LEMMA DeliveredType ==
  ASSUME StackTypeOK, NEW h \in Handle, NEW ev \in EventKind, Delivered(h, ev)
  PROVE  events' \in Seq(Event)
  BY TailType DEF Delivered

LEMMA PhoneType ==
  ASSUME TypeOK, NEW c \in Chan, Phone(c) \/ dtmf_timer_cb(c)
  PROVE  TypeOK'
<1>1. ASSUME NEW feedOK \in BOOLEAN, NEW answerOK \in BOOLEAN,
             svd_handle_event_FXS_OFFHOOK(c, feedOK, answerOK)
      PROVE  TypeOK'
  <2>1. /\ account' \in [Chan -> Account \union {None}]
        /\ call_established' \in [Chan -> BOOLEAN]
        /\ num_digits' \in [Chan -> 0 .. MaxDigits - 1]
        /\ remote' \in [Chan -> BOOLEAN]
    BY <1>1, ClearType DEF svd_handle_event_FXS_OFFHOOK, svd_answer
  <2>2. op_handle[c] # None => op_handle[c] \in Handle
    BY DEF TypeOK
  <2>3. stack' \in [Handle -> StackState]
    BY <1>1, <2>2, CommandType
       DEF svd_handle_event_FXS_OFFHOOK, svd_answer, TypeOK, StackTypeOK
  <2>4. op_handle' \in [Chan -> Handle \union {None}]
    BY <1>1 DEF svd_handle_event_FXS_OFFHOOK, svd_answer, TypeOK, Set
  <2>5. /\ off_hook' \in [Chan -> BOOLEAN]
        /\ ring' \in [Chan -> BOOLEAN]
    BY <1>1 DEF svd_handle_event_FXS_OFFHOOK, svd_answer, TypeOK, Set
  <2>6. /\ tone' \in [Chan -> Tone]
        /\ led' \in [Chan -> Led]
    BY <1>1 DEF svd_handle_event_FXS_OFFHOOK, svd_answer, TypeOK, Set, Tone, Led
  <2>7. QED
    BY <1>1, <2>1, <2>3, <2>4, <2>5, <2>6
       DEF svd_handle_event_FXS_OFFHOOK, svd_answer, TypeOK, StackTypeOK,
       mediaVars
<1>2. CASE svd_handle_event_FXS_ONHOOK(c)
  <2>1. /\ stack' \in [Handle -> StackState]
        /\ op_handle' \in [Chan -> Handle \union {None}]
        /\ account' \in [Chan -> Account \union {None}]
        /\ call_established' \in [Chan -> BOOLEAN]
        /\ num_digits' \in [Chan -> 0 .. MaxDigits - 1]
        /\ remote' \in [Chan -> BOOLEAN]
    BY <1>2, ClearCallType, CommandType
       DEF svd_handle_event_FXS_ONHOOK, svd_bye, ByeSent, TypeOK, StackTypeOK
  <2>2. QED
    BY <1>2, <2>1 DEF svd_handle_event_FXS_ONHOOK, su_timer_reset, TypeOK,
       StackTypeOK, Tone, Led, mediaVars
<1>3. CASE svd_handle_event_FXS_DIGIT_X(c)
  <2>1. CASE Full(c)
    BY <1>3, <2>1, ClearCallType
       DEF svd_handle_event_FXS_DIGIT_X, TypeOK, StackTypeOK, mediaVars
  <2>2. CASE ~Full(c)
    <3>1. num_digits[c] + 1 \in 0 .. MaxDigits - 1
      BY <2>2, ChanAssumption DEF Full, TypeOK
    <3>2. num_digits' = [num_digits EXCEPT ![c] = num_digits[c] + 1]
      BY <1>3, <2>2 DEF svd_handle_event_FXS_DIGIT_X
    <3>3. num_digits' \in [Chan -> 0 .. MaxDigits - 1]
      BY <3>1, <3>2 DEF TypeOK
    <3>4. QED
      BY <1>3, <2>2, <3>3
         DEF svd_handle_event_FXS_DIGIT_X, TypeOK, StackTypeOK, Tone, mediaVars
  <2>3. QED
    BY <2>1, <2>2
<1>4. ASSUME NEW sent \in Tone, NEW failed \in Tone, PlaceCall(c, sent, failed)
      PROVE  TypeOK'
  <2>1. /\ dtmf_tmr' \in [Chan -> BOOLEAN]
        /\ led' \in [Chan -> Led]
        /\ tone' \in [Chan -> Tone]
    BY <1>4 DEF PlaceCall, su_timer_reset, TypeOK, Led
  <2>2. UNCHANGED <<events, off_hook, call_established, num_digits, remote,
                    ring, mediaVars>>
    BY <1>4, Zenon DEF PlaceCall
  <2>3. CASE InviteSent(c)
    <3>1. /\ op_handle' \in [Chan -> Handle \union {None}]
          /\ account' \in [Chan -> Account \union {None}]
          /\ stack' \in [Handle -> StackState]
      BY <2>3, CommandType DEF InviteSent, TypeOK, StackTypeOK
    <3>2. QED
      BY <2>1, <2>2, <3>1 DEF TypeOK, StackTypeOK, mediaVars
  <2>4. CASE InviteFails(c)
    <3>1. /\ op_handle' \in [Chan -> Handle \union {None}]
          /\ account' \in [Chan -> Account \union {None}]
          /\ stack' = stack
      BY <2>4 DEF InviteFails, TypeOK
    <3>2. QED
      BY <2>1, <2>2, <3>1 DEF TypeOK, StackTypeOK, mediaVars
  <2>5. InviteSent(c) \/ InviteFails(c)
    BY <1>4, Zenon DEF PlaceCall
  <2>6. QED
    BY <2>3, <2>4, <2>5, Zenon
<1>5. CASE Hash(c)
  BY <1>4, <1>5 DEF Hash, Tone
<1>6. CASE dtmf_timer_cb(c)
  BY <1>4, <1>6 DEF dtmf_timer_cb, Tone, TypeOK
<1>7. QED
  BY <1>1, <1>2, <1>3, <1>5, <1>6 DEF Phone

\* The coders of a channel and what is known of them keep their types, whatever
\* the ioctls of the switch return.
MediaTypeOK ==
  /\ is_up \in [Chan -> BOOLEAN]
  /\ coders \in [Chan -> SUBSET Coder]
  /\ switched \in [Chan -> BOOLEAN]

LEMMA SwitchType ==
  ASSUME MediaTypeOK, NEW c \in Chan, NEW up \in BOOLEAN,
         NEW fails \in SUBSET Coder, ab_chan_media_switch(c, up, fails)
  PROVE  MediaTypeOK'
<1>1. CASE is_up[c] = up
  BY <1>1 DEF ab_chan_media_switch, mediaVars, MediaTypeOK
<1>2. CASE is_up[c] # up
  <2>1. Started(c, fails) \in SUBSET Coder /\ Stopped(c, fails) \in SUBSET Coder
    BY DEF Started, Stopped, MediaTypeOK
  <2>2. QED
    BY <1>2, <2>1 DEF ab_chan_media_switch, MediaTypeOK
<1>3. QED
  BY <1>1, <1>2

LEMMA MediaType ==
  ASSUME TypeOK, NEW c \in Chan,
         ab_chan_media_activate(c) \/ ab_chan_media_deactivate(c)
  PROVE  MediaTypeOK'
<1>1. MediaTypeOK /\ CoderFails \subseteq Coder
  BY ChanAssumption DEF TypeOK, MediaTypeOK
<1>2. CASE UNCHANGED mediaVars
  BY <1>1, <1>2 DEF mediaVars, MediaTypeOK
<1>3. ASSUME NEW up \in BOOLEAN, NEW fails \in SUBSET CoderFails,
             ab_chan_media_switch(c, up, fails)
      PROVE  MediaTypeOK'
  BY <1>1, <1>3, SwitchType
<1>4. QED
  BY <1>2, <1>3 DEF ab_chan_media_activate, ab_chan_media_deactivate

LEMMA CallbackType ==
  ASSUME TypeOK, svd_nua_callback
  PROVE  TypeOK'
<1>1. CASE Dropped
  BY <1>1, TailType DEF Dropped, TypeOK, StackTypeOK, callVars, lineVars, mediaVars
<1>2. ASSUME NEW h \in Handle, Deliver(h)
      PROVE  TypeOK'
  <2>1. events' \in Seq(Event)
    BY <1>2, DeliveredType
       DEF Deliver, svd_i_invite, svd_i_cancel, svd_i_prack, Ignored, State,
           i_state_received, i_state_proceeding, i_state_completing,
           i_state_ready, i_state_terminated, svd_r_invite_auth,
           svd_r_invite_busy, EventKind, TypeOK
  <2>2. ASSUME NEW a \in Account \union {None}, svd_i_invite(h, a)
        PROVE  TypeOK'
    BY <2>1, <2>2, CommandType
       DEF svd_i_invite, TypeOK, StackTypeOK, Set, Led, mediaVars
  <2>3. CASE svd_i_cancel(h)
    <3>1. /\ account' \in [Chan -> Account \union {None}]
          /\ call_established' \in [Chan -> BOOLEAN]
          /\ num_digits' \in [Chan -> 0 .. MaxDigits - 1]
          /\ remote' \in [Chan -> BOOLEAN]
      BY <2>3, ClearType DEF svd_i_cancel
    <3>2. led' \in [Chan -> Led]
      BY <2>3 DEF svd_i_cancel, TypeOK, Led
    <3>3. QED
      BY <2>1, <2>3, <3>1, <3>2 DEF svd_i_cancel, TypeOK, StackTypeOK, Set,
         mediaVars
  <2>4. CASE svd_i_prack(h)
    BY <2>1, <2>4, CommandType
       DEF svd_i_prack, TypeOK, StackTypeOK, callVars, lineVars, mediaVars
  <2>5. CASE Ignored(h)
    BY <2>1, <2>5 DEF Ignored, TypeOK, StackTypeOK, callVars, lineVars, mediaVars
  <2>6. ASSUME svd_parse_sdp(h)
        PROVE  remote' \in [Chan -> BOOLEAN]
    BY <2>6 DEF svd_parse_sdp, Set, TypeOK
  <2>7. ASSUME NEW c \in Chan, i_state_received(h, c)
        PROVE  TypeOK'
    BY <2>1, <2>6, <2>7
       DEF i_state_received, State, TypeOK, StackTypeOK, lineVars, mediaVars
  <2>8. ASSUME NEW c \in Chan, i_state_proceeding(h, c)
        PROVE  TypeOK'
    BY <2>1, <2>6, <2>8
       DEF i_state_proceeding, State, TypeOK, StackTypeOK, Tone, mediaVars
  <2>9. ASSUME NEW c \in Chan, i_state_completing(h, c)
        PROVE  TypeOK'
    BY <2>1, <2>6, <2>9, CommandType
       DEF i_state_completing, State, TypeOK, StackTypeOK, lineVars, mediaVars
  <2>10. ASSUME NEW c \in Chan, i_state_ready(h, c)
         PROVE  TypeOK'
    <3>1. MediaTypeOK'
      BY <2>10, MediaType DEF i_state_ready
    <3>2. QED
      BY <2>1, <2>6, <2>10, <3>1
         DEF i_state_ready, State, TypeOK, MediaTypeOK, StackTypeOK, Tone
  <2>11. ASSUME NEW c \in Chan, i_state_terminated(h, c)
         PROVE  TypeOK'
    <3>1. /\ account' \in [Chan -> Account \union {None}]
          /\ call_established' \in [Chan -> BOOLEAN]
          /\ num_digits' \in [Chan -> 0 .. MaxDigits - 1]
          /\ remote' \in [Chan -> BOOLEAN]
          /\ op_handle' \in [Chan -> Handle \union {None}]
          /\ stack' \in [Handle -> StackState]
      BY <2>11, ClearCallType DEF i_state_terminated
    <3>2. MediaTypeOK'
      BY <2>11, MediaType DEF i_state_terminated
    <3>3. QED
      BY <2>1, <2>11, <3>1, <3>2 DEF i_state_terminated, RingEnds, TypeOK,
         MediaTypeOK, StackTypeOK, Tone
  <2>12. ASSUME NEW c \in Chan, NEW challenge \in BOOLEAN,
                svd_r_invite_auth(h, c, challenge)
         PROVE  TypeOK'
    BY <2>1, <2>12, CommandType
       DEF svd_r_invite_auth, TypeOK, StackTypeOK, callVars, lineVars, mediaVars
  <2>13. ASSUME NEW c \in Chan, svd_r_invite_busy(h, c)
         PROVE  TypeOK'
    BY <2>1, <2>13 DEF svd_r_invite_busy, TypeOK, StackTypeOK, callVars, Tone,
       mediaVars
  <2>14. QED
    BY <1>2, <2>2, <2>3, <2>4, <2>5, <2>7, <2>8, <2>9, <2>10, <2>11, <2>12,
       <2>13 DEF Deliver
<1>3. QED
  BY <1>1, <1>2 DEF svd_nua_callback

\* Every field keeps its type; above all, the digit buffer never fills up to
\* the last byte, which stays the zero that svd_invite_to reads up to.
THEOREM TypeCorrect == Spec => []TypeOK
<1>1. Init => TypeOK
  <2>1. 0 \in 0 .. MaxDigits - 1
    BY ChanAssumption
  <2>2. QED
    BY <2>1 DEF Init, StackInit, TypeOK, StackTypeOK, StackState, Tone, Led
<1>2. TypeOK /\ [Next]_vars => TypeOK'
  <2>1. ASSUME TypeOK, NEW h \in Handle, Peer(h)
        PROVE  TypeOK'
    BY <2>1, PeerType DEF Peer, TypeOK, callVars, lineVars, mediaVars
  <2>2. ASSUME TypeOK, UNCHANGED vars
        PROVE  TypeOK'
    BY <2>2 DEF vars, stackVars, callVars, lineVars, TypeOK, StackTypeOK,
       mediaVars
  <2>3. QED
    BY <2>1, <2>2, PhoneType, CallbackType DEF Next
<1>3. QED
  BY <1>1, <1>2, PTL DEF Spec

-----------------------------------------------------------------------------
(***************************************************************************)
(* What a channel knows about its call.  The three properties hold         *)
(* together: the timer may overwrite op_handle only because it is off in   *)
(* every call, and it is off in every call because a call starts either on *)
(* a phone on the hook, where the timer is stopped, or by stopping it.     *)
(***************************************************************************)
CallInv == DialTimerOnlyWhenIdle /\ CallHasHandleAndAccount /\ NoStaleRemote

\* svd_clear_call forgets the account, the peer and that a call was up.
LEMMA ClearFacts ==
  ASSUME TypeOK, NEW C \in SUBSET Chan, ClearFields(C), NEW d \in Chan
  PROVE  /\ d \in C => ~call_established'[d] /\ ~remote'[d]
         /\ d \notin C => /\ account'[d] = account[d]
                          /\ call_established'[d] = call_established[d]
                          /\ remote'[d] = remote[d]
  BY DEF ClearFields, EndCall, ForgetPeer, Set

LEMMA ClearCallFacts ==
  ASSUME TypeOK, NEW c \in Chan, svd_clear_call(c), NEW d \in Chan
  PROVE  /\ d = c => /\ op_handle'[d] = None
                     /\ ~call_established'[d] /\ ~remote'[d]
         /\ d # c => /\ op_handle'[d] = op_handle[d]
                     /\ account'[d] = account[d]
                     /\ call_established'[d] = call_established[d]
                     /\ remote'[d] = remote[d]
<1>1. ClearFields({c})
  BY DEF svd_clear_call
<1>2. op_handle' = [op_handle EXCEPT ![c] = None]
  BY DEF svd_clear_call, Forget
<1>3. QED
  BY <1>1, <1>2, ClearFacts DEF TypeOK

LEMMA PhoneKeepsCallInv ==
  ASSUME TypeOK, CallInv, NEW c \in Chan, Phone(c) \/ dtmf_timer_cb(c)
  PROVE  CallInv'
<1> USE DEF CallInv, DialTimerOnlyWhenIdle, CallHasHandleAndAccount,
            NoStaleRemote
<1>1. ASSUME NEW feedOK \in BOOLEAN, NEW answerOK \in BOOLEAN,
             svd_handle_event_FXS_OFFHOOK(c, feedOK, answerOK)
      PROVE  CallInv'
  <2>1. Others(c) \in SUBSET Chan /\ c \notin Others(c)
    BY DEF Others
  <2>2. ClearFields(Others(c))
    BY <1>1 DEF svd_handle_event_FXS_OFFHOOK, svd_answer
  <2>3. \A d \in Chan : /\ d \in Others(c) => op_handle'[d] = None
                        /\ d \notin Others(c) => op_handle'[d] = op_handle[d]
    BY <1>1 DEF svd_handle_event_FXS_OFFHOOK, svd_answer, Set, TypeOK
  <2>4. \A d \in Chan : off_hook[d] => off_hook'[d]
    BY <1>1 DEF svd_handle_event_FXS_OFFHOOK, svd_answer, TypeOK
  <2>5. dtmf_tmr' = dtmf_tmr
    BY <1>1 DEF svd_handle_event_FXS_OFFHOOK, svd_answer
  <2>6. QED
    BY <2>1, <2>2, <2>3, <2>4, <2>5, ClearFacts
<1>2. CASE svd_handle_event_FXS_ONHOOK(c)
  <2>1. \A d \in Chan : dtmf_tmr'[d] => d # c /\ dtmf_tmr[d]
    BY <1>2 DEF svd_handle_event_FXS_ONHOOK, su_timer_reset, TypeOK
  <2>2. \A d \in Chan : d # c => off_hook'[d] = off_hook[d]
    BY <1>2 DEF svd_handle_event_FXS_ONHOOK, TypeOK
  <2>3. CASE op_handle[c] # None
    BY <1>2, <2>1, <2>2, <2>3 DEF svd_handle_event_FXS_ONHOOK, svd_bye
  <2>4. CASE op_handle[c] = None
    <3>1. svd_clear_call(c)
      BY <1>2, <2>4 DEF svd_handle_event_FXS_ONHOOK, svd_bye
    <3>2. QED
      BY <2>1, <2>2, <3>1, ClearCallFacts
  <2>5. QED
    BY <2>3, <2>4
<1>3. CASE svd_handle_event_FXS_DIGIT_X(c)
  <2>1. \A d \in Chan : d # c => dtmf_tmr'[d] = dtmf_tmr[d]
    BY <1>3 DEF svd_handle_event_FXS_DIGIT_X, TypeOK
  <2>2. off_hook' = off_hook /\ off_hook[c] /\ op_handle[c] = None
    BY <1>3 DEF svd_handle_event_FXS_DIGIT_X
  <2>3. CASE Full(c)
    <3>1. svd_clear_call(c)
      BY <1>3, <2>3 DEF svd_handle_event_FXS_DIGIT_X
    <3>2. QED
      BY <2>1, <2>2, <3>1, ClearCallFacts
  <2>4. CASE ~Full(c)
    BY <1>3, <2>1, <2>2, <2>4 DEF svd_handle_event_FXS_DIGIT_X
  <2>5. QED
    BY <2>3, <2>4
<1>4. ASSUME NEW sent, NEW failed, PlaceCall(c, sent, failed),
             op_handle[c] = None
      PROVE  CallInv'
  <2>1. \A d \in Chan : dtmf_tmr'[d] => d # c /\ dtmf_tmr[d]
    BY <1>4 DEF PlaceCall, su_timer_reset, TypeOK
  <2>2. /\ off_hook' = off_hook
        /\ call_established' = call_established
        /\ remote' = remote
    BY <1>4 DEF PlaceCall
  <2>3. CASE InviteSent(c)
    <3>1. PICK h \in Handle, a \in Account :
            /\ op_handle' = [op_handle EXCEPT ![c] = h]
            /\ account' = [account EXCEPT ![c] = a]
      BY <2>3 DEF InviteSent
    <3>2. h # None /\ a # None
      BY ChanAssumption
    <3>3. QED
      BY <1>4, <2>1, <2>2, <3>1, <3>2 DEF TypeOK
  <2>4. CASE InviteFails(c)
    <3>1. op_handle' = op_handle
      BY <1>4, <2>4 DEF InviteFails, TypeOK
    <3>2. \A d \in Chan : d # c => account'[d] = account[d]
      BY <2>4 DEF InviteFails, TypeOK
    <3>3. QED
      BY <1>4, <2>1, <2>2, <3>1, <3>2
  <2>5. QED
    BY <1>4, <2>3, <2>4 DEF PlaceCall
<1>5. CASE Hash(c)
  BY <1>4, <1>5 DEF Hash
<1>6. CASE dtmf_timer_cb(c)
  BY <1>4, <1>6 DEF dtmf_timer_cb
<1>7. QED
  BY <1>1, <1>2, <1>3, <1>5, <1>6 DEF Phone

LEMMA CallbackKeepsCallInv ==
  ASSUME TypeOK, CallInv, svd_nua_callback
  PROVE  CallInv'
<1> USE DEF CallInv, DialTimerOnlyWhenIdle, CallHasHandleAndAccount,
            NoStaleRemote
<1>1. CASE Dropped
  BY <1>1 DEF Dropped, callVars
<1>2. ASSUME NEW h \in Handle, Deliver(h)
      PROVE  CallInv'
  <2>1. ASSUME NEW a \in Account \union {None}, svd_i_invite(h, a)
        PROVE  CallInv'
    <3>1. \A d \in Callable(a) : ~off_hook[d] /\ op_handle[d] = None /\ a # None
      BY DEF Callable
    <3>2. \A d \in Chan :
            /\ d \in Callable(a) => op_handle'[d] = h /\ account'[d] = a
            /\ d \notin Callable(a) => /\ op_handle'[d] = op_handle[d]
                                       /\ account'[d] = account[d]
      BY <2>1 DEF svd_i_invite, Set
    <3>3. UNCHANGED <<off_hook, call_established, dtmf_tmr, remote>>
      BY <2>1 DEF svd_i_invite
    <3>4. h # None
      BY ChanAssumption
    <3>5. QED
      BY <3>1, <3>2, <3>3, <3>4
  <2>2. CASE svd_i_cancel(h)
    <3>1. Bound(h) \in SUBSET Chan /\ ClearFields(Bound(h))
      BY <2>2 DEF svd_i_cancel, Bound
    <3>2. \A d \in Chan : /\ d \in Bound(h) => op_handle'[d] = None
                          /\ d \notin Bound(h) => op_handle'[d] = op_handle[d]
      BY <2>2 DEF svd_i_cancel, Set
    <3>3. UNCHANGED <<off_hook, dtmf_tmr>>
      BY <2>2 DEF svd_i_cancel
    <3>4. QED
      BY <3>1, <3>2, <3>3, ClearFacts
  <2>3. CASE svd_i_prack(h) \/ Ignored(h)
    BY <2>3 DEF svd_i_prack, Ignored, callVars
  <2>4. ASSUME svd_parse_sdp(h), NEW d \in Chan, remote'[d]
        PROVE  op_handle[d] # None
    <3>1. h # None
      BY ChanAssumption
    <3>2. QED
      BY <2>4, <3>1 DEF svd_parse_sdp, Set, Bound
  <2>5. ASSUME NEW c \in Chan,
               \/ i_state_received(h, c)
               \/ i_state_proceeding(h, c)
               \/ i_state_completing(h, c)
        PROVE  CallInv'
    <3>1. /\ svd_parse_sdp(h)
          /\ UNCHANGED <<off_hook, op_handle, account, call_established,
                         dtmf_tmr>>
      BY <2>5 DEF i_state_received, i_state_proceeding, i_state_completing,
         State
    <3>2. QED
      BY <2>4, <3>1
  <2>6. ASSUME NEW c \in Chan, i_state_ready(h, c)
        PROVE  CallInv'
    <3>1. svd_parse_sdp(h) /\ UNCHANGED <<off_hook, op_handle, account, dtmf_tmr>>
      BY <2>6 DEF i_state_ready, State
    <3>2. op_handle[c] = h /\ h # None
      BY <2>6, ChanAssumption
         DEF i_state_ready, State, IsFirst, Bound
    <3>3. \A d \in Chan : d # c => call_established'[d] = call_established[d]
      BY <2>6 DEF i_state_ready, TypeOK
    <3>4. QED
      BY <2>4, <3>1, <3>2, <3>3
  <2>7. ASSUME NEW c \in Chan, i_state_terminated(h, c)
        PROVE  CallInv'
    <3>1. svd_clear_call(c) /\ UNCHANGED <<off_hook, dtmf_tmr>>
      BY <2>7 DEF i_state_terminated
    <3>2. QED
      BY <3>1, ClearCallFacts
  <2>8. ASSUME NEW c \in Chan, NEW challenge \in BOOLEAN,
               svd_r_invite_auth(h, c, challenge) \/ svd_r_invite_busy(h, c)
        PROVE  CallInv'
    BY <2>8 DEF svd_r_invite_auth, svd_r_invite_busy, callVars
  <2>9. QED
    BY <1>2, <2>1, <2>2, <2>3, <2>5, <2>6, <2>7, <2>8 DEF Deliver
<1>3. QED
  BY <1>1, <1>2 DEF svd_nua_callback

\* No step of the phones, the timer, the stack or the peer breaks CallInv.
LEMMA CallInvariant == Spec => []CallInv
<1>1. Init => CallInv
  BY DEF Init, CallInv, DialTimerOnlyWhenIdle, CallHasHandleAndAccount,
         NoStaleRemote
<1>2. TypeOK /\ CallInv /\ [Next]_vars => CallInv'
  <2>1. ASSUME CallInv, UNCHANGED callVars
        PROVE  CallInv'
    BY <2>1 DEF callVars, CallInv, DialTimerOnlyWhenIdle,
       CallHasHandleAndAccount, NoStaleRemote
  <2>2. QED
    BY <2>1, PhoneKeepsCallInv, CallbackKeepsCallInv DEF Next, Peer, vars
<1>3. QED
  BY <1>1, <1>2, TypeCorrect, PTL DEF Spec

\* The timer that places a call cannot fire while the phone is in a call.
THEOREM TimerOnlyWhenIdle == Spec => []DialTimerOnlyWhenIdle
<1>1. CallInv => DialTimerOnlyWhenIdle
  BY DEF CallInv
<1>2. QED
  BY <1>1, CallInvariant, PTL

\* The digit and SDP handlers never read the account of a channel without one.
THEOREM HandleAndAccount == Spec => []CallHasHandleAndAccount
<1>1. CallInv => CallHasHandleAndAccount
  BY DEF CallInv
<1>2. QED
  BY <1>1, CallInvariant, PTL

\* The voice of an idle line is never sent to the peer of an earlier call.
THEOREM PeerForgotten == Spec => []NoStaleRemote
<1>1. CallInv => NoStaleRemote
  BY DEF CallInv
<1>2. QED
  BY <1>1, CallInvariant, PTL

-----------------------------------------------------------------------------
(* A call is never replaced by another one.                                *)

LEMMA PhoneReplacesNoCall ==
  ASSUME TypeOK, CallInv, NEW c \in Chan, Phone(c) \/ dtmf_timer_cb(c),
         NEW d \in Chan, op_handle[d] # None
  PROVE  op_handle'[d] \in {None, op_handle[d]}
<1>1. ASSUME NEW feedOK \in BOOLEAN, NEW answerOK \in BOOLEAN,
             svd_handle_event_FXS_OFFHOOK(c, feedOK, answerOK)
      PROVE  op_handle'[d] \in {None, op_handle[d]}
  BY <1>1 DEF svd_handle_event_FXS_OFFHOOK, svd_answer, Set
<1>2. CASE svd_handle_event_FXS_ONHOOK(c) \/ svd_handle_event_FXS_DIGIT_X(c)
  BY <1>2, ClearCallFacts
     DEF svd_handle_event_FXS_ONHOOK, svd_handle_event_FXS_DIGIT_X, svd_bye
<1>3. CASE Hash(c) \/ dtmf_timer_cb(c)
  <2>1. op_handle[c] = None
    BY <1>3 DEF Hash, dtmf_timer_cb, CallInv, DialTimerOnlyWhenIdle
  <2>2. InviteSent(c) \/ InviteFails(c)
    BY <1>3 DEF Hash, dtmf_timer_cb, PlaceCall
  <2>3. op_handle'[d] = op_handle[d]
    BY <2>1, <2>2 DEF InviteSent, InviteFails, TypeOK
  <2>4. QED
    BY <2>3
<1>4. QED
  BY <1>1, <1>2, <1>3 DEF Phone

LEMMA CallbackReplacesNoCall ==
  ASSUME TypeOK, svd_nua_callback, NEW d \in Chan, op_handle[d] # None
  PROVE  op_handle'[d] \in {None, op_handle[d]}
<1>1. CASE Dropped
  BY <1>1 DEF Dropped, callVars
<1>2. ASSUME NEW h \in Handle, Deliver(h)
      PROVE  op_handle'[d] \in {None, op_handle[d]}
  <2>1. ASSUME NEW a \in Account \union {None}, svd_i_invite(h, a)
        PROVE  op_handle'[d] = op_handle[d]
    BY <2>1 DEF svd_i_invite, Callable, Set
  <2>2. CASE svd_i_cancel(h)
    BY <2>2 DEF svd_i_cancel, Set
  <2>3. ASSUME NEW c \in Chan, i_state_terminated(h, c)
        PROVE  op_handle'[d] \in {None, op_handle[d]}
    BY <2>3, ClearCallFacts DEF i_state_terminated
  <2>4. CASE UNCHANGED op_handle
    BY <2>4
  <2>5. QED
    BY <1>2, <2>1, <2>2, <2>3, <2>4
       DEF Deliver, svd_i_prack, Ignored, i_state_received, i_state_proceeding,
           i_state_completing, i_state_ready, svd_r_invite_auth,
           svd_r_invite_busy, callVars
<1>3. QED
  BY <1>1, <1>2 DEF svd_nua_callback

\* A channel is in one call at a time: neither the dial timer nor an incoming
\* INVITE takes the place of a call that has not ended.
THEOREM NoCallReplaced == Spec => CallNotReplaced
<1>1. TypeOK /\ CallInv /\ [Next]_vars
        => [\A c \in Chan : op_handle[c] # None /\ op_handle'[c] # None
                              => op_handle'[c] = op_handle[c]]_vars
  BY PhoneReplacesNoCall, CallbackReplacesNoCall DEF Next, Peer, callVars
<1>2. QED
  BY <1>1, TypeCorrect, CallInvariant, PTL DEF Spec, CallNotReplaced

-----------------------------------------------------------------------------
(***************************************************************************)
(* Hanging up.  A session only moves forward in the stack, so once svd_bye *)
(* has reached it, it stays out of Live.  Nothing refers to a handle that  *)
(* does not exist yet; otherwise svd_bye might come before the call.       *)
(***************************************************************************)
Over == {"terminating", "terminated", "destroyed"}

Forward ==
  \A g \in Handle : /\ stack[g] # "free" => stack'[g] # "free"
                    /\ stack[g] \in Over => stack'[g] \in Over

LEMMA MoveForward ==
  ASSUME StackTypeOK, NEW h \in Handle, NEW from, NEW to \in StackState \ {"free"},
         from \cap Over = {}, stack' = Move(h, from, to)
  PROVE  Forward
  BY DEF Forward, Move, StackTypeOK

LEMMA CommandForward ==
  ASSUME StackTypeOK, NEW h \in Handle,
         \/ stack' = stack
         \/ stack' = nua_respond_ok(h)
         \/ stack' = nua_respond_error(h)
         \/ stack' = nua_ack(h)
         \/ stack' = nua_authenticate(h)
         \/ stack' = nua_bye(h)
         \/ stack' = nua_invite(h)
         \/ stack' = nua_handle_destroy(h)
  PROVE  Forward
<1>1. CASE stack' = stack
  BY <1>1 DEF Forward
<1>2. CASE stack' = nua_handle_destroy(h)
  BY <1>2 DEF Forward, nua_handle_destroy, Over, StackTypeOK
<1>3. QED
  BY <1>1, <1>2, MoveForward
     DEF nua_respond_ok, nua_respond_error, nua_ack, nua_authenticate, nua_bye,
         nua_invite, Live, Over, StackState

LEMMA ClearCallForward ==
  ASSUME TypeOK, NEW c \in Chan, svd_clear_call(c)
  PROVE  Forward
<1>1. CASE op_handle[c] = None
  BY <1>1 DEF svd_clear_call, Forward
<1>2. CASE op_handle[c] # None
  BY <1>2, CommandForward DEF svd_clear_call, TypeOK
<1>3. QED
  BY <1>1, <1>2

LEMMA PhoneForward ==
  ASSUME TypeOK, NEW c \in Chan, Phone(c) \/ dtmf_timer_cb(c)
  PROVE  Forward
<1>0. op_handle[c] # None => op_handle[c] \in Handle
  BY DEF TypeOK
<1>1. ASSUME NEW feedOK \in BOOLEAN, NEW answerOK \in BOOLEAN,
             svd_handle_event_FXS_OFFHOOK(c, feedOK, answerOK)
      PROVE  Forward
  <2>1. CASE stack' = stack
    BY <2>1 DEF Forward
  <2>2. CASE stack' # stack
    BY <1>0, <1>1, <2>2, CommandForward
       DEF svd_handle_event_FXS_OFFHOOK, svd_answer, TypeOK
  <2>3. QED
    BY <2>1, <2>2
<1>2. CASE svd_handle_event_FXS_ONHOOK(c)
  BY <1>0, <1>2, CommandForward, ClearCallForward
     DEF svd_handle_event_FXS_ONHOOK, svd_bye, ByeSent, TypeOK
<1>3. CASE svd_handle_event_FXS_DIGIT_X(c)
  <2>1. CASE Full(c)
    BY <1>3, <2>1, ClearCallForward DEF svd_handle_event_FXS_DIGIT_X
  <2>2. CASE ~Full(c)
    BY <1>3, <2>2 DEF svd_handle_event_FXS_DIGIT_X, Forward
  <2>3. QED
    BY <2>1, <2>2
<1>4. CASE Hash(c) \/ dtmf_timer_cb(c)
  <2>1. CASE InviteSent(c)
    BY <2>1, CommandForward DEF InviteSent, TypeOK
  <2>2. CASE InviteFails(c)
    BY <2>2 DEF InviteFails, Forward
  <2>3. QED
    BY <1>4, <2>1, <2>2 DEF Hash, dtmf_timer_cb, PlaceCall
<1>5. QED
  BY <1>1, <1>2, <1>3, <1>4 DEF Phone

LEMMA CallbackForward ==
  ASSUME TypeOK, svd_nua_callback
  PROVE  Forward
<1>1. CASE Dropped
  BY <1>1 DEF Dropped, Forward
<1>2. ASSUME NEW h \in Handle, Deliver(h)
      PROVE  Forward
  <2>1. ASSUME NEW c \in Chan, i_state_terminated(h, c)
        PROVE  Forward
    BY <2>1, ClearCallForward DEF i_state_terminated
  <2>2. CASE \/ stack' = stack
             \/ stack' = nua_ack(h)
             \/ stack' = nua_authenticate(h)
             \/ stack' = nua_handle_destroy(h)
    BY <2>2, CommandForward DEF TypeOK
  <2>3. QED
    BY <1>2, <2>1, <2>2
       DEF Deliver, svd_i_invite, svd_i_cancel, svd_i_prack, Ignored,
           i_state_received, i_state_proceeding, i_state_completing,
           i_state_ready, svd_r_invite_auth, svd_r_invite_busy
<1>3. QED
  BY <1>1, <1>2 DEF svd_nua_callback

LEMMA PeerForward ==
  ASSUME StackTypeOK, NEW h \in Handle, PeerStep(h)
  PROVE  Forward
  BY DEF Forward, StackTypeOK, PeerStep, PeerInvites, PeerCancels, PeerPracks,
     PeerGivesUp, PeerChallenges, PeerRings, PeerAnswers, PeerIsBusy,
     PeerRefuses, CallIsReady, PeerHangsUp, PeerReInvites, EndIsConfirmed, Step,
     Over

\* Every step of the program, of the stack and of the peer.
LEMMA NextForward ==
  ASSUME TypeOK, [Next]_vars
  PROVE  Forward
<1>1. CASE UNCHANGED vars
  BY <1>1 DEF vars, stackVars, Forward
<1>2. CASE Next
  BY <1>2, PhoneForward, CallbackForward, PeerForward DEF Next, Peer, TypeOK
<1>3. QED
  BY <1>1, <1>2

-----------------------------------------------------------------------------
(* A call that a channel has, or an event is queued for, exists.           *)

KnownBound == \A c \in Chan : op_handle[c] # None => stack[op_handle[c]] # "free"
KnownQueued == \A k \in 1 .. Len(events) : stack[events[k].h] # "free"

LEMMA QueuedHandle ==
  ASSUME StackTypeOK, NEW k \in 1 .. Len(events)
  PROVE  events[k].h \in Handle
<1>1. events[k] \in Event
  BY DEF StackTypeOK
<1>2. QED
  BY <1>1 DEF Event

LEMMA TailKeepsKnown ==
  ASSUME StackTypeOK, KnownQueued, Forward, events # << >>,
         events' = Tail(events)
  PROVE  KnownQueued'
<1>1. SUFFICES ASSUME NEW k \in 1 .. Len(events')
               PROVE  stack'[events'[k].h] # "free"
  BY DEF KnownQueued
<1>2. k + 1 \in 1 .. Len(events) /\ events'[k] = events[k + 1]
  BY DEF StackTypeOK
<1>3. events[k + 1].h \in Handle
  BY <1>2, QueuedHandle
<1>4. QED
  BY <1>2, <1>3 DEF KnownQueued, Forward

LEMMA StepKeepsKnown ==
  ASSUME StackTypeOK, KnownQueued, Forward, NEW h \in Handle, NEW from,
         NEW to \in StackState \ {"free"}, NEW evs \in Seq(Event),
         \A k \in 1 .. Len(evs) : evs[k].h = h, Step(h, from, to, evs)
  PROVE  KnownQueued'
<1>1. SUFFICES ASSUME NEW k \in 1 .. Len(events')
               PROVE  stack'[events'[k].h] # "free"
  BY DEF KnownQueued
<1>2. events' = events \o evs /\ stack'[h] # "free"
  BY DEF Step, StackTypeOK
<1>3. CASE k \in 1 .. Len(events)
  <2>1. events'[k] = events[k] /\ events[k].h \in Handle
    BY <1>2, <1>3, QueuedHandle DEF StackTypeOK
  <2>2. QED
    BY <1>3, <2>1 DEF KnownQueued, Forward
<1>4. CASE k \notin 1 .. Len(events)
  <2>1. k - Len(events) \in 1 .. Len(evs) /\ events'[k] = evs[k - Len(events)]
    BY <1>2, <1>4 DEF StackTypeOK
  <2>2. QED
    BY <1>2, <2>1
<1>5. QED
  BY <1>3, <1>4

LEMMA PeerKeepsKnown ==
  ASSUME StackTypeOK, KnownQueued, NEW h \in Handle, PeerStep(h)
  PROVE  KnownQueued'
<1>1. \A ev \in EventKind :
        /\ <<Note(h, ev)>> \in Seq(Event)
        /\ \A k \in 1 .. Len(<<Note(h, ev)>>) : <<Note(h, ev)>>[k].h = h
  BY NoteType DEF Note
<1>2. \A ev1, ev2 \in EventKind :
        /\ <<Note(h, ev1), Note(h, ev2)>> \in Seq(Event)
        /\ \A k \in 1 .. Len(<<Note(h, ev1), Note(h, ev2)>>) :
             <<Note(h, ev1), Note(h, ev2)>>[k].h = h
  BY NoteType DEF Note
<1>3. Forward
  BY PeerForward
<1>4. ASSUME NEW ev \in EventKind, NEW from, NEW to \in StackState \ {"free"},
             Step(h, from, to, <<Note(h, ev)>>)
      PROVE  KnownQueued'
  BY <1>1, <1>3, <1>4, StepKeepsKnown
<1>5. ASSUME NEW ev1 \in EventKind, NEW ev2 \in EventKind, NEW from,
             NEW to \in StackState \ {"free"},
             Step(h, from, to, <<Note(h, ev1), Note(h, ev2)>>)
      PROVE  KnownQueued'
  BY <1>2, <1>3, <1>5, StepKeepsKnown
<1>6. CASE PeerInvites(h) \/ PeerCancels(h) \/ PeerIsBusy(h)
             \/ PeerReInvites(h)
  BY <1>5, <1>6
     DEF PeerInvites, PeerCancels, PeerIsBusy, PeerReInvites, EventKind,
         StackState
<1>7. CASE PeerPracks(h) \/ PeerGivesUp(h) \/ PeerChallenges(h)
             \/ PeerRings(h) \/ PeerAnswers(h)
  BY <1>4, <1>7
     DEF PeerPracks, PeerGivesUp, PeerChallenges, PeerRings, PeerAnswers,
         EventKind, StackState
<1>8. CASE PeerRefuses(h) \/ CallIsReady(h) \/ PeerHangsUp(h)
             \/ EndIsConfirmed(h)
  BY <1>4, <1>8
     DEF PeerRefuses, CallIsReady, PeerHangsUp, EndIsConfirmed, EventKind,
         StackState
<1>9. QED
  BY <1>6, <1>7, <1>8, Zenon DEF PeerStep

\* Only placing a call and an incoming INVITE give a channel a handle, and
\* both give it one that exists.
LEMMA PhoneGivesKnown ==
  ASSUME TypeOK, NEW c \in Chan, Phone(c) \/ dtmf_timer_cb(c), NEW d \in Chan
  PROVE  \/ op_handle'[d] \in {None, op_handle[d]}
         \/ stack'[op_handle'[d]] # "free"
<1>1. ASSUME NEW feedOK \in BOOLEAN, NEW answerOK \in BOOLEAN,
             svd_handle_event_FXS_OFFHOOK(c, feedOK, answerOK)
      PROVE  op_handle'[d] \in {None, op_handle[d]}
  BY <1>1 DEF svd_handle_event_FXS_OFFHOOK, svd_answer, Set
<1>2. CASE svd_handle_event_FXS_ONHOOK(c) \/ svd_handle_event_FXS_DIGIT_X(c)
  BY <1>2, ClearCallFacts
     DEF svd_handle_event_FXS_ONHOOK, svd_handle_event_FXS_DIGIT_X, svd_bye
<1>3. CASE Hash(c) \/ dtmf_timer_cb(c)
  <2>1. ASSUME NEW h \in Handle, stack[h] = "free", stack' = nua_invite(h),
               op_handle' = [op_handle EXCEPT ![c] = h]
        PROVE  \/ op_handle'[d] = op_handle[d]
               \/ stack'[op_handle'[d]] # "free"
    BY <2>1 DEF nua_invite, Move, TypeOK, StackTypeOK
  <2>2. CASE InviteFails(c)
    BY <2>2 DEF InviteFails, TypeOK
  <2>3. QED
    BY <1>3, <2>1, <2>2 DEF Hash, dtmf_timer_cb, PlaceCall, InviteSent
<1>4. QED
  BY <1>1, <1>2, <1>3 DEF Phone

LEMMA CallbackGivesKnown ==
  ASSUME TypeOK, KnownQueued, svd_nua_callback, NEW d \in Chan
  PROVE  \/ op_handle'[d] \in {None, op_handle[d]}
         \/ op_handle'[d] \in Handle /\ stack[op_handle'[d]] # "free"
<1>1. ASSUME NEW h \in Handle, NEW a \in Account \union {None},
             svd_i_invite(h, a)
      PROVE  \/ op_handle'[d] = op_handle[d]
             \/ op_handle'[d] \in Handle /\ stack[op_handle'[d]] # "free"
  <2>1. events # << >> /\ Head(events).h = h
    BY <1>1 DEF svd_i_invite, Delivered, Note
  <2>2. 1 \in 1 .. Len(events) /\ events[1] = Head(events)
    BY <2>1 DEF TypeOK, StackTypeOK
  <2>3. stack[h] # "free"
    BY <2>1, <2>2 DEF KnownQueued
  <2>4. op_handle'[d] = op_handle[d] \/ op_handle'[d] = h
    BY <1>1 DEF svd_i_invite, Set
  <2>5. QED
    BY <2>3, <2>4
<1>2. CASE \A h \in Handle, a \in Account \union {None} : ~svd_i_invite(h, a)
  <2>1. CASE Dropped
    BY <2>1 DEF Dropped, callVars
  <2>2. ASSUME NEW h \in Handle, Deliver(h)
        PROVE  op_handle'[d] \in {None, op_handle[d]}
    <3>1. CASE svd_i_cancel(h)
      BY <3>1 DEF svd_i_cancel, Set
    <3>2. ASSUME NEW c \in Chan, i_state_terminated(h, c)
          PROVE  op_handle'[d] \in {None, op_handle[d]}
      BY <3>2, ClearCallFacts DEF i_state_terminated
    <3>3. CASE UNCHANGED op_handle
      BY <3>3
    <3>4. QED
      BY <1>2, <2>2, <3>1, <3>2, <3>3
         DEF Deliver, svd_i_prack, Ignored, i_state_received,
             i_state_proceeding, i_state_completing, i_state_ready,
             svd_r_invite_auth, svd_r_invite_busy, callVars
  <2>3. QED
    BY <2>1, <2>2 DEF svd_nua_callback
<1>3. QED
  BY <1>1, <1>2

\* The program leaves the queue alone or takes its head.
LEMMA ProgramQueue ==
  ASSUME \/ \E c \in Chan : Phone(c) \/ dtmf_timer_cb(c)
         \/ svd_nua_callback
  PROVE  \/ events' = events
         \/ events # << >> /\ events' = Tail(events)
<1>1. ASSUME NEW c \in Chan, Phone(c) \/ dtmf_timer_cb(c)
      PROVE  events' = events
  BY <1>1 DEF Phone, dtmf_timer_cb, svd_handle_event_FXS_OFFHOOK, svd_answer,
     svd_handle_event_FXS_ONHOOK, svd_handle_event_FXS_DIGIT_X, Hash, PlaceCall
<1>2. CASE Dropped
  BY <1>2 DEF Dropped
<1>3. ASSUME NEW h \in Handle, Deliver(h)
      PROVE  \E ev : Delivered(h, ev)
  BY <1>3 DEF Deliver, svd_i_invite, svd_i_cancel, svd_i_prack, Ignored, State,
     i_state_received, i_state_proceeding, i_state_completing, i_state_ready,
     i_state_terminated, svd_r_invite_auth, svd_r_invite_busy
<1>4. QED
  BY <1>1, <1>2, <1>3 DEF svd_nua_callback, Delivered

LEMMA NextKeepsKnown ==
  ASSUME TypeOK, TypeOK', KnownBound, KnownQueued, [Next]_vars
  PROVE  KnownBound' /\ KnownQueued'
<1>0. Forward
  BY NextForward
<1>1. ASSUME NEW d \in Chan, op_handle'[d] # None,
             op_handle'[d] = op_handle[d]
      PROVE  stack'[op_handle'[d]] # "free"
  BY <1>0, <1>1 DEF KnownBound, Forward, TypeOK
<1>2. CASE \E c \in Chan : Phone(c) \/ dtmf_timer_cb(c)
  <2>1. KnownBound'
    BY <1>1, <1>2, PhoneGivesKnown DEF KnownBound
  <2>2. QED
    BY <1>0, <1>2, <2>1, ProgramQueue, TailKeepsKnown, QueuedHandle
       DEF KnownQueued, Forward, TypeOK
<1>3. CASE svd_nua_callback
  <2>1. KnownBound'
    BY <1>0, <1>1, <1>3, CallbackGivesKnown DEF KnownBound, Forward
  <2>2. QED
    BY <1>0, <1>3, <2>1, ProgramQueue, TailKeepsKnown, QueuedHandle
       DEF KnownQueued, Forward, TypeOK
<1>4. ASSUME NEW h \in Handle, Peer(h)
      PROVE  KnownBound' /\ KnownQueued'
  BY <1>1, <1>4, PeerKeepsKnown DEF Peer, KnownBound, callVars, TypeOK
<1>5. CASE UNCHANGED vars
  BY <1>5 DEF vars, stackVars, callVars, KnownBound, KnownQueued
<1>6. QED
  BY <1>2, <1>3, <1>4, <1>5 DEF Next

-----------------------------------------------------------------------------
(* The call of a phone that was hung up is over, and stays over.           *)

LEMMA OverIsNotLive ==
  ASSUME NEW s \in StackState
  PROVE  /\ s \in Over => s \notin Live
         /\ s \notin Live /\ s # "free" => s \in Over
  BY DEF Over, Live, StackState

HungUp(c) == op_handle[c] # None /\ ~off_hook[c] /\ ~ring[c]

\* A step that leaves a hung up channel as it is leaves its call over.
LEMMA StaysHungUp ==
  ASSUME TypeOK, TypeOK', KnownBound, HungUpCallEnds, Forward,
         NEW d \in Chan, HungUp(d)', op_handle'[d] = op_handle[d],
         off_hook'[d] = off_hook[d], ring'[d] = ring[d]
  PROVE  stack'[op_handle'[d]] \notin Live
<1>1. op_handle[d] \in Handle /\ op_handle[d] # None
  BY DEF HungUp, TypeOK
<1>2. stack[op_handle[d]] \in StackState /\ stack'[op_handle[d]] \in StackState
  BY <1>1 DEF TypeOK, StackTypeOK
<1>3. stack[op_handle[d]] \in Over
  BY <1>1, <1>2, OverIsNotLive DEF HungUp, HungUpCallEnds, KnownBound
<1>4. QED
  BY <1>1, <1>2, <1>3, OverIsNotLive DEF Forward

LEMMA PhoneHangsUp ==
  ASSUME TypeOK, TypeOK', CallInv, KnownBound, HungUpCallEnds,
         NEW c \in Chan, Phone(c) \/ dtmf_timer_cb(c),
         NEW d \in Chan, HungUp(d)'
  PROVE  stack'[op_handle'[d]] \notin Live
<1>0. Forward
  BY PhoneForward
<1>1. ASSUME NEW feedOK \in BOOLEAN, NEW answerOK \in BOOLEAN,
             svd_handle_event_FXS_OFFHOOK(c, feedOK, answerOK)
      PROVE  stack'[op_handle'[d]] \notin Live
  <2>1. d # c
    BY <1>1 DEF svd_handle_event_FXS_OFFHOOK, svd_answer, HungUp, TypeOK
  <2>2. op_handle[c] = None
    BY <1>1, <2>1
       DEF svd_handle_event_FXS_OFFHOOK, svd_answer, HungUp, Others, Set
  <2>3. op_handle'[d] = op_handle[d] /\ off_hook'[d] = off_hook[d]
                                    /\ ring'[d] = ring[d]
    BY <1>1, <2>1, <2>2
       DEF svd_handle_event_FXS_OFFHOOK, svd_answer, Others, Set, TypeOK
  <2>4. QED
    BY <1>0, <2>3, StaysHungUp
<1>2. CASE svd_handle_event_FXS_ONHOOK(c) /\ d = c
  <2>1. op_handle[c] # None
    BY <1>2, ClearCallFacts DEF svd_handle_event_FXS_ONHOOK, svd_bye, HungUp
  <2>2. op_handle'[c] = op_handle[c] /\ stack' = nua_bye(op_handle[c])
    BY <1>2, <2>1 DEF svd_handle_event_FXS_ONHOOK, svd_bye, ByeSent
  <2>3. op_handle[c] \in Handle
    BY <2>1 DEF TypeOK
  <2>4. stack'[op_handle[c]] \notin Live
    BY <2>2, <2>3 DEF nua_bye, Move, Live, TypeOK, StackTypeOK
  <2>5. QED
    BY <1>2, <2>2, <2>4
<1>3. CASE svd_handle_event_FXS_ONHOOK(c) /\ d # c
  <2>1. op_handle'[d] = op_handle[d]
    BY <1>3 DEF svd_handle_event_FXS_ONHOOK, svd_bye, svd_clear_call, Forget,
       TypeOK
  <2>2. off_hook'[d] = off_hook[d] /\ ring'[d] = ring[d]
    BY <1>3 DEF svd_handle_event_FXS_ONHOOK, TypeOK
  <2>3. QED
    BY <1>0, <2>1, <2>2, StaysHungUp
<1>4. CASE svd_handle_event_FXS_DIGIT_X(c) \/ Hash(c) \/ dtmf_timer_cb(c)
  <2>1. off_hook[c] /\ UNCHANGED <<off_hook, ring>>
    BY <1>4 DEF svd_handle_event_FXS_DIGIT_X, Hash, dtmf_timer_cb, PlaceCall,
       CallInv, DialTimerOnlyWhenIdle
  <2>2. d # c
    BY <2>1 DEF HungUp
  <2>3. CASE svd_handle_event_FXS_DIGIT_X(c)
    BY <1>0, <2>1, <2>2, <2>3, StaysHungUp
       DEF svd_handle_event_FXS_DIGIT_X, svd_clear_call, Forget, TypeOK
  <2>4. CASE Hash(c) \/ dtmf_timer_cb(c)
    <3>1. InviteSent(c) \/ InviteFails(c)
      BY <2>4 DEF Hash, dtmf_timer_cb, PlaceCall
    <3>2. op_handle'[d] = op_handle[d]
      BY <2>2, <3>1 DEF InviteSent, InviteFails, TypeOK
    <3>3. QED
      BY <1>0, <2>1, <3>2, StaysHungUp
  <2>5. QED
    BY <1>4, <2>3, <2>4
<1>5. QED
  BY <1>1, <1>2, <1>3, <1>4 DEF Phone

LEMMA CallbackHangsUp ==
  ASSUME TypeOK, TypeOK', KnownBound, HungUpCallEnds, svd_nua_callback,
         NEW d \in Chan, HungUp(d)'
  PROVE  stack'[op_handle'[d]] \notin Live
<1>0. Forward
  BY CallbackForward
<1>1. SUFFICES /\ op_handle'[d] = op_handle[d]
               /\ off_hook'[d] = off_hook[d]
               /\ ring'[d] = ring[d]
  BY <1>0, StaysHungUp
<1>2. CASE Dropped
  BY <1>2 DEF Dropped, callVars, lineVars
<1>3. ASSUME NEW h \in Handle, Deliver(h)
      PROVE  /\ op_handle'[d] = op_handle[d]
             /\ off_hook'[d] = off_hook[d]
             /\ ring'[d] = ring[d]
  <2>1. ASSUME NEW a \in Account \union {None}, svd_i_invite(h, a)
        PROVE  /\ op_handle'[d] = op_handle[d]
               /\ off_hook'[d] = off_hook[d]
               /\ ring'[d] = ring[d]
    BY <2>1 DEF svd_i_invite, Set, HungUp
  <2>2. CASE svd_i_cancel(h)
    BY <2>2 DEF svd_i_cancel, Set, HungUp
  <2>3. ASSUME NEW c \in Chan, i_state_terminated(h, c)
        PROVE  /\ op_handle'[d] = op_handle[d]
               /\ off_hook'[d] = off_hook[d]
               /\ ring'[d] = ring[d]
    <3>1. op_handle' = [op_handle EXCEPT ![c] = None]
      BY <2>3 DEF i_state_terminated, svd_clear_call, Forget
    <3>2. d # c
      BY <3>1 DEF HungUp, TypeOK
    <3>3. QED
      BY <2>3, <3>1, <3>2 DEF i_state_terminated, RingEnds, TypeOK
  <2>4. CASE UNCHANGED <<op_handle, off_hook, ring>>
    BY <2>4
  <2>5. QED
    BY <1>3, <2>1, <2>2, <2>3, <2>4
       DEF Deliver, svd_i_prack, Ignored, i_state_received, i_state_proceeding,
           i_state_completing, i_state_ready, svd_r_invite_auth,
           svd_r_invite_busy, callVars, lineVars
<1>4. QED
  BY <1>2, <1>3 DEF svd_nua_callback

\* Hanging up ends the call in the stack, whichever state its session was in
\* and however the BYE crosses what the peer does; the end is final.
THEOREM HangingUpEndsTheCall == Spec => []HungUpCallEnds
<1> DEFINE IInv == KnownBound /\ KnownQueued /\ HungUpCallEnds
<1>1. TypeOK /\ Init => IInv
  BY DEF Init, StackInit, KnownBound, KnownQueued, HungUpCallEnds
<1>2. ASSUME TypeOK, TypeOK', CallInv, IInv, [Next]_vars
      PROVE  HungUpCallEnds'
  <2>1. SUFFICES ASSUME NEW d \in Chan, HungUp(d)'
                 PROVE  stack'[op_handle'[d]] \notin Live
    BY DEF HungUpCallEnds, HungUp
  <2>2. ASSUME NEW h \in Handle, Peer(h)
        PROVE  stack'[op_handle'[d]] \notin Live
    BY <1>2, <2>1, <2>2, NextForward, StaysHungUp
       DEF Peer, callVars, lineVars
  <2>3. CASE UNCHANGED vars
    BY <1>2, <2>1, <2>3, NextForward, StaysHungUp
       DEF vars, callVars, lineVars
  <2>4. QED
    BY <1>2, <2>1, <2>2, <2>3, PhoneHangsUp, CallbackHangsUp DEF Next
<1>3. TypeOK /\ TypeOK' /\ CallInv /\ IInv /\ [Next]_vars => IInv'
  BY <1>2, NextKeepsKnown
<1>4. IInv => HungUpCallEnds
  OBVIOUS
<1> HIDE DEF IInv
<1>5. QED
  BY <1>1, <1>3, <1>4, TypeCorrect, CallInvariant, PTL DEF Spec
=============================================================================
