------------------------------ MODULE SvdCalls ------------------------------
(***************************************************************************)
(* The telephone side of svd: what the hook, the keypad, the dial timer    *)
(* and the SIP stack do to the channel contexts (struct svd_chan_s) and to *)
(* the line, tone, LED and media state of the phones.                      *)
(*                                                                         *)
(* svd is one thread: su_root_run calls one handler at a time, and every   *)
(* action below is one whole handler.  The concurrency is with the phones  *)
(* and with the SIP stack (module NuaStack), whose events wait in a queue. *)
(*                                                                         *)
(* Abstracted: which number is called (only how many digits are held),     *)
(* which account an outgoing call uses (any), and the hardware calls other *)
(* than the line feed, the RTP set-up and the switch of the media, which   *)
(* succeed.                                                                *)
(***************************************************************************)
EXTENDS NuaStack

CONSTANTS NumChans,       \* g_conf.channels
          Account,        \* the SIP accounts
          ring_incoming,  \* [Account -> SUBSET Chan], sip_account_s
          MaxDigits,      \* ADDR_PAYLOAD_LEN
          CoderFails,     \* the coders that a start or a stop may fail on
          None            \* the NULL pointer

Chan == 0 .. NumChans - 1
Coder == {"ENC", "DEC"}

ASSUME ChanAssumption ==
  /\ NumChans \in Nat
  /\ ring_incoming \in [Account -> SUBSET Chan]
  /\ MaxDigits \in Nat \ {0}
  /\ CoderFails \subseteq Coder
  /\ None \notin Handle \union Account

VARIABLES off_hook,          \* svd_chan_s.off_hook
          op_handle,         \* svd_chan_s.op_handle
          account,           \* svd_chan_s.account
          call_established,  \* svd_chan_s.call_established
          num_digits,        \* svd_chan_s.dial_status.num_digits
          dtmf_tmr,          \* is svd_chan_s.dtmf_tmr set?
          remote,            \* are remote_host and remote_port set?
          ring,              \* ab_chan_s.status.ring = RINGING
          tone,              \* ab_chan_s.status.tone
          led,               \* what the LED of the phone shows
          is_up,             \* ab_chan_s.statistics.is_up
          coders,            \* the coders that run in the hardware
          switched           \* history: the last switch of the media that
                             \* started or stopped coders succeeded

callVars == <<off_hook, op_handle, account, call_established, num_digits,
              dtmf_tmr, remote>>
mediaVars == <<is_up, coders, switched>>
lineVars == <<ring, tone, led, mediaVars>>
vars == <<stackVars, callVars, lineVars>>

Tone == {"MUTE", "DIAL", "BUSY", "RINGBACK"}
Led  == {"off", "on", "slow", "fast"}

\* The fields have their types, and the digit buffer keeps room for the
\* terminating zero that svd_invite_to reads up to.
TypeOK ==
  /\ StackTypeOK
  /\ off_hook \in [Chan -> BOOLEAN]
  /\ op_handle \in [Chan -> Handle \union {None}]
  /\ account \in [Chan -> Account \union {None}]
  /\ call_established \in [Chan -> BOOLEAN]
  /\ num_digits \in [Chan -> 0 .. MaxDigits - 1]
  /\ dtmf_tmr \in [Chan -> BOOLEAN]
  /\ remote \in [Chan -> BOOLEAN]
  /\ ring \in [Chan -> BOOLEAN]
  /\ tone \in [Chan -> Tone]
  /\ led \in [Chan -> Led]
  /\ is_up \in [Chan -> BOOLEAN]
  /\ coders \in [Chan -> SUBSET Coder]
  /\ switched \in [Chan -> BOOLEAN]

Init ==
  /\ StackInit
  /\ off_hook = [c \in Chan |-> FALSE]
  /\ op_handle = [c \in Chan |-> None]
  /\ account = [c \in Chan |-> None]
  /\ call_established = [c \in Chan |-> FALSE]
  /\ num_digits = [c \in Chan |-> 0]
  /\ dtmf_tmr = [c \in Chan |-> FALSE]
  /\ remote = [c \in Chan |-> FALSE]
  /\ ring = [c \in Chan |-> FALSE]
  /\ tone = [c \in Chan |-> "MUTE"]
  /\ led = [c \in Chan |-> "off"]
  /\ is_up = [c \in Chan |-> FALSE]
  /\ coders = [c \in Chan |-> {}]
  /\ switched = [c \in Chan |-> TRUE]

Bound(h) == {c \in Chan : op_handle[c] = h}

\* for (i = 0; ...) if (op_handle == nh) break: the channel the loop stops at
IsFirst(c, h) == c \in Bound(h) /\ \A d \in Bound(h) : c <= d

\* f with every channel of C set to v
Set(f, C, v) == [c \in Chan |-> IF c \in C THEN v ELSE f[c]]

\* Operators named Wrong_* are slips the code does not make, each beside the
\* operator it would replace: every property is shown to notice one.
Wrong_su_timer_reset(c) == dtmf_tmr
su_timer_reset(c) == [dtmf_tmr EXCEPT ![c] = FALSE]

\* svd_clear_call on the channels of C, but for what becomes of op_handle
Wrong_EndCall(C) == call_established
EndCall(C) == Set(call_established, C, FALSE)

Wrong_ForgetPeer(C) == remote
ForgetPeer(C) == Set(remote, C, FALSE)

ClearFields(C) ==
  /\ account' = Set(account, C, None)
  /\ call_established' = EndCall(C)
  /\ num_digits' = Set(num_digits, C, 0)
  /\ remote' = ForgetPeer(C)

\* svd_clear_call on one channel: its handle is destroyed and forgotten
Wrong_Forget(c) == op_handle
Forget(c) == [op_handle EXCEPT ![c] = None]

svd_clear_call(c) ==
  /\ ClearFields({c})
  /\ op_handle' = Forget(c)
  /\ stack' = IF op_handle[c] = None THEN stack
              ELSE nua_handle_destroy(op_handle[c])

\* svd_bye: the stack is told to end the call, which is still in the channel
Wrong_nua_bye(c) ==
  IF call_established[c] THEN nua_bye(op_handle[c]) ELSE stack
ByeSent(c) == nua_bye(op_handle[c])

svd_bye(c) ==
  IF op_handle[c] # None
  THEN /\ stack' = ByeSent(c)
       /\ UNCHANGED <<op_handle, account, call_established, num_digits, remote>>
  ELSE svd_clear_call(c)

-----------------------------------------------------------------------------
(***************************************************************************)
(* The phones: svd_atab_handler.                                           *)
(***************************************************************************)

\* svd_handle_event_FXS_OFFHOOK, the loop: with a call on the line that is
\* picked up, every other channel is cleared, whatever call it is in; its
\* op_handle is set to NULL first, so the handle is not destroyed.
Wrong_Others(c) == {}
Others(c) == IF op_handle[c] = None THEN {} ELSE Chan \ {c}

\* svd_answer: 200, or 500 without a line feed.  Without an RTP socket or an
\* SDP (~answerOK) nothing is sent, and the call still counts as answered.
svd_answer(h, feedOK, answerOK) ==
  CASE h = None \/ ~answerOK             -> stack
    [] h # None /\ answerOK /\ feedOK   -> nua_respond_ok(h)
    [] h # None /\ answerOK /\ ~feedOK  -> nua_respond_error(h)

svd_handle_event_FXS_OFFHOOK(c, feedOK, answerOK) ==
  LET h == op_handle[c] IN
  /\ ~off_hook[c]
  /\ off_hook' = [off_hook EXCEPT ![c] = TRUE]
  /\ ring' = IF h = None THEN ring ELSE Set(ring, Bound(h), FALSE)
  /\ ClearFields(Others(c))
  /\ op_handle' = Set(op_handle, Others(c), None)
  /\ stack' = svd_answer(h, feedOK, answerOK)
  /\ led' = [Set(led, Others(c), "off") EXCEPT
               ![c] = IF ~feedOK THEN @
                      ELSE IF h = None THEN "on" ELSE "slow"]
  /\ tone' = IF h = None /\ feedOK THEN [tone EXCEPT ![c] = "DIAL"] ELSE tone
  /\ UNCHANGED <<events, dtmf_tmr, mediaVars>>

\* svd_handle_event_FXS_ONHOOK
svd_handle_event_FXS_ONHOOK(c) ==
  /\ off_hook[c]
  /\ off_hook' = [off_hook EXCEPT ![c] = FALSE]
  /\ dtmf_tmr' = su_timer_reset(c)
  /\ svd_bye(c)
  /\ tone' = [tone EXCEPT ![c] = "MUTE"]
  /\ led' = [led EXCEPT ![c] = "off"]
  /\ UNCHANGED <<events, ring, mediaVars>>

\* svd_handle_digit: is the buffer full with one more digit?
Wrong_Full(c) == num_digits[c] = MaxDigits
Full(c) == num_digits[c] + 1 = MaxDigits

\* svd_handle_event_FXS_DIGIT_X with svd_handle_digit, a digit of the number.
\* In a call the digit goes out as INFO and changes nothing here.  A full
\* buffer is cleared, and the timer that was just set keeps running.
svd_handle_event_FXS_DIGIT_X(c) ==
  /\ off_hook[c]
  /\ op_handle[c] = None
  /\ dtmf_tmr' = [dtmf_tmr EXCEPT ![c] = TRUE]
  /\ IF Full(c)
       THEN svd_clear_call(c) /\ UNCHANGED tone
       ELSE /\ num_digits' = [num_digits EXCEPT ![c] = @ + 1]
            /\ tone' = [tone EXCEPT ![c] = "MUTE"]
            /\ UNCHANGED <<op_handle, account, call_established, remote, stack>>
  /\ UNCHANGED <<events, off_hook, ring, led, mediaVars>>

\* svd_invite_to: the call is placed on a new handle ...
InviteSent(c) ==
  \E h \in Handle, a \in Account :
    /\ stack[h] = "free"
    /\ stack' = nua_invite(h)
    /\ op_handle' = [op_handle EXCEPT ![c] = h]
    /\ account' = [account EXCEPT ![c] = a]

\* ... or it is not: no account or no URL (nothing is assigned), or no RTP
\* socket, handle or SDP (the account is, and the handle is destroyed).
InviteFails(c) ==
  /\ \/ UNCHANGED <<op_handle, account>>
     \/ \E a \in Account : /\ account' = [account EXCEPT ![c] = a]
                           /\ op_handle' = [op_handle EXCEPT ![c] = None]
  /\ UNCHANGED stack

\* svd_handle_digit with PLACE_CALL_MARKER: the line carries the tone sent
\* if the call is placed and the tone failed if it is not.
PlaceCall(c, sent, failed) ==
  /\ dtmf_tmr' = su_timer_reset(c)
  /\ led' = [led EXCEPT ![c] = "slow"]
  /\ \/ InviteSent(c)  /\ tone' = [tone EXCEPT ![c] = sent]
     \/ InviteFails(c) /\ tone' = [tone EXCEPT ![c] = failed]
  /\ UNCHANGED <<events, off_hook, call_established, num_digits, remote,
                 ring, mediaVars>>

\* '#': svd_handle_event_FXS_DIGIT_X mutes the line after svd_handle_digit,
\* which has started the busy tone if the call was not placed.
Hash(c) ==
  /\ off_hook[c]
  /\ op_handle[c] = None
  /\ PlaceCall(c, "MUTE", "MUTE")

dtmf_timer_cb(c) ==
  /\ dtmf_tmr[c]
  /\ PlaceCall(c, tone[c], "BUSY")

-----------------------------------------------------------------------------
(***************************************************************************)
(* The SIP stack: svd_nua_callback on the event at the head of the queue.  *)
(***************************************************************************)
Delivered(h, ev) ==
  /\ events # << >>
  /\ Head(events) = Note(h, ev)
  /\ stack[h] # "destroyed"
  /\ events' = Tail(events)

\* The stack does not report what it had queued for a destroyed handle.
Dropped ==
  /\ events # << >>
  /\ stack[Head(events).h] = "destroyed"
  /\ events' = Tail(events)
  /\ UNCHANGED <<stack, callVars, lineVars>>

\* svd_i_invite for account a (None: no account matches).  The test of
\* op_handle is against any call, so a new event on a handle that is in use
\* is treated as one more call.
Wrong_Callable(a) ==
  {c \in Chan : a # None /\ c \in ring_incoming[a] /\ ~off_hook[c]}
Callable(a) ==
  {c \in Chan : a # None /\ c \in ring_incoming[a]
                         /\ op_handle[c] = None /\ ~off_hook[c]}

svd_i_invite(h, a) ==
  LET C == Callable(a) IN
  /\ Delivered(h, "i_invite")
  /\ op_handle' = Set(op_handle, C, h)
  /\ account' = Set(account, C, a)
  /\ ring' = Set(ring, C, TRUE)
  /\ led' = Set(led, C, "fast")
  /\ stack' = IF C = {} THEN nua_handle_destroy(h) ELSE stack
  /\ UNCHANGED <<off_hook, call_established, num_digits, dtmf_tmr, remote,
                 tone, mediaVars>>

\* svd_i_cancel: op_handle is NULL before svd_clear_call, the handle stays
svd_i_cancel(h) ==
  LET C == Bound(h) IN
  /\ Delivered(h, "i_cancel")
  /\ ring' = Set(ring, C, FALSE)
  /\ led' = [c \in Chan |-> IF c \notin C THEN led[c]
                            ELSE IF off_hook[c] THEN "on" ELSE "off"]
  /\ op_handle' = Set(op_handle, C, None)
  /\ ClearFields(C)
  /\ UNCHANGED <<stack, off_hook, dtmf_tmr, tone, mediaVars>>

svd_i_prack(h) ==
  /\ Delivered(h, "i_prack")
  /\ stack' = IF Bound(h) = {} THEN nua_handle_destroy(h) ELSE stack
  /\ UNCHANGED <<callVars, lineVars>>

\* An event that svd_i_state or svd_r_invite finds no channel for.
Ignored(h) ==
  /\ Bound(h) = {}
  /\ \E ev \in EventKind \ {"i_invite", "i_cancel", "i_prack"} :
       Delivered(h, ev)
  /\ UNCHANGED <<stack, callVars, lineVars>>

\* svd_i_state up to its switch: c is the first channel of the handle, and
\* an SDP of the peer, if there is one, is stored in every channel of it.
svd_parse_sdp(h) == remote' \in {remote, Set(remote, Bound(h), TRUE)}

State(h, c, ev) == Delivered(h, ev) /\ IsFirst(c, h) /\ svd_parse_sdp(h)

i_state_received(h, c) ==
  /\ State(h, c, "received")
  /\ UNCHANGED <<stack, off_hook, op_handle, account, call_established,
                 num_digits, dtmf_tmr, lineVars>>

i_state_proceeding(h, c) ==
  /\ State(h, c, "proceeding")
  /\ tone' = [tone EXCEPT ![c] = "RINGBACK"]
  /\ UNCHANGED <<stack, off_hook, op_handle, account, call_established,
                 num_digits, dtmf_tmr, ring, led, mediaVars>>

i_state_completing(h, c) ==
  /\ State(h, c, "completing")
  /\ stack' = nua_ack(h)
  /\ UNCHANGED <<off_hook, op_handle, account, call_established,
                 num_digits, dtmf_tmr, lineVars>>

\* ab_chan_media_switch: nothing if is_up says that it is done; otherwise both
\* coders are tried, those in fails stay as they are, and is_up follows only if
\* none failed.
Started(c, fails) == coders[c] \union (Coder \ fails)

Wrong_Stopped(c, fails) == coders[c] \intersect (fails \union {"DEC"})
Stopped(c, fails) == coders[c] \intersect fails

ab_chan_media_switch(c, up, fails) ==
  IF is_up[c] = up THEN UNCHANGED mediaVars
  ELSE /\ coders' = [coders EXCEPT ![c] = IF up THEN Started(c, fails)
                                               ELSE Stopped(c, fails)]
       /\ is_up' = [is_up EXCEPT ![c] = IF fails = {} THEN up ELSE @]
       /\ switched' = [switched EXCEPT ![c] = fails = {}]

\* ab_chan_media_activate: a step before the switch may fail
ab_chan_media_activate(c) ==
  \/ UNCHANGED mediaVars
  \/ \E fails \in SUBSET CoderFails : ab_chan_media_switch(c, TRUE, fails)

ab_chan_media_deactivate(c) ==
  \E fails \in SUBSET CoderFails : ab_chan_media_switch(c, FALSE, fails)

\* An error of the activation is logged, and the call goes on without media.
i_state_ready(h, c) ==
  /\ State(h, c, "ready")
  /\ tone' = [tone EXCEPT ![c] = "MUTE"]
  /\ ab_chan_media_activate(c)
  /\ call_established' = [call_established EXCEPT ![c] = TRUE]
  /\ UNCHANGED <<stack, off_hook, op_handle, account, num_digits, dtmf_tmr,
                 ring, led>>

\* The end of the call: c is silent, free, and plays the busy tone.  Nobody
\* looks at what ab_chan_media_deactivate returns.
Wrong_CallEnds(h, c) == IsFirst(c, h) /\ call_established[c]
CallEnds(h, c) == IsFirst(c, h)

Wrong_RingEnds(c) == ring
RingEnds(c) == [ring EXCEPT ![c] = FALSE]

i_state_terminated(h, c) ==
  /\ Delivered(h, "terminated")
  /\ CallEnds(h, c)
  /\ svd_clear_call(c)
  /\ ab_chan_media_deactivate(c)
  /\ ring' = RingEnds(c)
  /\ tone' = [tone EXCEPT ![c] = "BUSY"]
  /\ UNCHANGED <<off_hook, dtmf_tmr, led>>

svd_r_invite_auth(h, c, challenge) ==
  /\ Delivered(h, "r_invite_auth")
  /\ IsFirst(c, h)
  /\ stack' = IF challenge THEN nua_authenticate(h) ELSE stack
  /\ UNCHANGED <<callVars, lineVars>>

svd_r_invite_busy(h, c) ==
  /\ Delivered(h, "r_invite_busy")
  /\ IsFirst(c, h)
  /\ tone' = [tone EXCEPT ![c] = "BUSY"]
  /\ UNCHANGED <<stack, callVars, ring, led, mediaVars>>

-----------------------------------------------------------------------------
Phone(c) ==
  \/ \E feedOK, answerOK \in BOOLEAN :
       svd_handle_event_FXS_OFFHOOK(c, feedOK, answerOK)
  \/ svd_handle_event_FXS_ONHOOK(c)
  \/ svd_handle_event_FXS_DIGIT_X(c)
  \/ Hash(c)

Deliver(h) ==
  \/ \E a \in Account \union {None} : svd_i_invite(h, a)
  \/ svd_i_cancel(h)
  \/ svd_i_prack(h)
  \/ Ignored(h)
  \/ \E c \in Chan :
       \/ i_state_received(h, c)
       \/ i_state_proceeding(h, c)
       \/ i_state_completing(h, c)
       \/ i_state_ready(h, c)
       \/ i_state_terminated(h, c)
       \/ \E challenge \in BOOLEAN : svd_r_invite_auth(h, c, challenge)
       \/ svd_r_invite_busy(h, c)

svd_nua_callback == Dropped \/ \E h \in Handle : Deliver(h)

Peer(h) == PeerStep(h) /\ UNCHANGED <<callVars, lineVars>>

Next ==
  \/ \E c \in Chan : Phone(c) \/ dtmf_timer_cb(c)
  \/ svd_nua_callback
  \/ \E h \in Handle : Peer(h)

Spec == Init /\ [][Next]_vars

\* The main loop keeps running (su_root_run) and the stack ends what it was
\* told to end (SIP transactions time out).  Nothing is assumed of the people
\* at the phones or of the peer.  Ending is strongly fair because the bound
\* on the queue, which the stack does not have, disables it now and then.
Fairness ==
  /\ WF_vars(svd_nua_callback)
  /\ \A h \in Handle :
       SF_vars(EndIsConfirmed(h) /\ UNCHANGED <<callVars, lineVars>>)

FairSpec == Spec /\ Fairness

-----------------------------------------------------------------------------

(***************************************************************************)
(* Properties                                                              *)
(***************************************************************************)
\* The timer that places a call is only armed on a phone that is off the hook
\* and in no call: svd_handle_digit overwrites op_handle when it fires.
DialTimerOnlyWhenIdle ==
  \A c \in Chan : dtmf_tmr[c] => off_hook[c] /\ op_handle[c] = None

\* Only phones that ring for it share a call: once one of them is picked up
\* (svd_handle_event_FXS_OFFHOOK) the call is on that line alone.
OneAnswerer ==
  \A c, d \in Chan :
    c # d /\ op_handle[c] = op_handle[d] /\ op_handle[c] # None
      => ring[c] /\ ~off_hook[c] /\ ring[d] /\ ~off_hook[d]

\* A channel that counts as in a call has its handle, and a channel with a
\* handle has the account that svd_handle_event_FXS_DIGIT_X and
\* svd_set_te_codec read without a test.
CallHasHandleAndAccount ==
  \A c \in Chan : /\ call_established[c] => op_handle[c] # None
                  /\ op_handle[c] # None => account[c] # None

\* Without a call there is no peer address: svd_media_tapi_handle_local_data
\* sends the voice of the line to remote_host whenever that is set.
NoStaleRemote ==
  \A c \in Chan : op_handle[c] = None => ~remote[c]

\* A phone that was hung up has no call that is alive in the stack: svd_bye
\* reached it, whichever state the session was in.
HungUpCallEnds ==
  \A c \in Chan :
    op_handle[c] # None /\ ~off_hook[c] /\ ~ring[c]
      => stack[op_handle[c]] \notin Live

\* No channel keeps a handle that was given to nua_handle_destroy.
NoDanglingHandle ==
  \A c \in Chan : op_handle[c] # None => stack[op_handle[c]] # "destroyed"

\* A call of a channel is never replaced by another one: it ends first.
CallNotReplaced ==
  [][\A c \in Chan : op_handle[c] # None /\ op_handle'[c] # None
                       => op_handle'[c] = op_handle[c]]_vars

(***************************************************************************)
(* Properties of one line on its own: with two lines, picking up a call on *)
(* one of them breaks the first two on the other (AnswerLeavesOtherCalls). *)
(***************************************************************************)
\* A phone rings only for a call that it can answer.
RingingHasCall ==
  \A c \in Chan : ring[c] => op_handle[c] # None /\ ~off_hook[c]

\* A coder only runs in a call, as long as no start or stop failed: what a
\* half failed switch leaves running is put right by the next one that
\* succeeds, and any other way to lose the call finds the coders off.
Coding(c) == switched[c] /\ coders[c] # {}
MediaOnlyInCall ==
  \A c \in Chan : Coding(c) => op_handle[c] # None

\* A phone that was hung up is freed for the next call, whoever ended it.
HungUpLineIsFreed ==
  \A c \in Chan, h \in Handle :
    op_handle[c] = h /\ ~off_hook[c] /\ ~ring[c] ~> op_handle[c] # h

\* A channel learns that its call is over.
EndedCallIsNoticed ==
  \A c \in Chan, h \in Handle :
    op_handle[c] = h /\ stack[h] = "terminated" ~> op_handle[c] # h

(***************************************************************************)
(* What comments of the code say and the code does not do.                 *)
(***************************************************************************)
\* Answering a call on one phone changes no other call: the comment at
\* svd_atab.c:699 is "remove association with this call".
AnswerLeavesOtherCalls ==
  [][\A c, d \in Chan :
       off_hook'[c] /\ ~off_hook[c] /\ op_handle[c] # op_handle[d]
         => op_handle'[d] = op_handle[d]]_vars

\* The end of a call ends the ringing ("stop ringing", svd_ua.c:989), and
\* "more than one channel" can belong to an incoming call (svd_ua.c:1417).
EndedCallIsSilent ==
  \A c \in Chan :
    ring[c] /\ op_handle[c] # None => stack[op_handle[c]] # "destroyed"
=============================================================================
