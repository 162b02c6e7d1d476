------------------------------- MODULE AbChan -------------------------------
(***************************************************************************)
(* An FXS channel of libab: ab_FXS_line_ring, ab_FXS_line_tone,            *)
(* ab_FXS_line_feed and ab_chan_media_switch.  libab keeps the state of    *)
(* the channel in a cache (ab_chan_s.status, statistics.is_up) and asks    *)
(* the driver only for what the cache says is not there yet.  A call is    *)
(* the sequence of its ioctls, each of which may fail; what a failed ioctl *)
(* was to change stays as it was.                                          *)
(*                                                                         *)
(* The channel starts as ab_chan_status_init leaves it when its ioctls     *)
(* succeed; it does not look at their results.                             *)
(*                                                                         *)
(* Abstracted: the caller id that goes with the ring, the statistics read  *)
(* before the media goes down, and the text of errors.                     *)
(***************************************************************************)
EXTENDS Sequences

CONSTANT None   \* no call is being executed

VARIABLES status,   \* ab_chan_s.status
          is_up,    \* ab_chan_s.statistics.is_up
          hw,       \* the hardware behind rtp_fd
          call,     \* the request of the call being executed, or None
          todo,     \* the ioctls that it has still to make
          failed    \* did one of them fail?

vars == <<status, is_up, hw, call, todo, failed>>

Tone == {"MUTE", "DIAL", "BUSY", "RINGBACK"}
Linefeed == {"DISABLED", "STANDBY", "ACTIVE"}

Req(what, to) == [what |-> what, to |-> to]

LineCall == {Req("ring", r) : r \in BOOLEAN}
              \union {Req("tone", t) : t \in Tone}
              \union {Req("linefeed", f) : f \in Linefeed}
MediaCall == {Req("media", up) : up \in BOOLEAN}
ASSUME AbChanAssumption == None \notin LineCall \union MediaCall

Ioctl == LineCall \union {Req(what, up) : what \in {"enc", "dec"}, up \in BOOLEAN}

\* The cache and the hardware have their types; a call has a few ioctls left.
TypeOK ==
  /\ status \in [ring : BOOLEAN, tone : Tone, linefeed : Linefeed]
  /\ is_up \in BOOLEAN
  /\ hw \in [ring : BOOLEAN, tone : Tone, linefeed : Linefeed,
             enc : BOOLEAN, dec : BOOLEAN]
  /\ call \in LineCall \union MediaCall \union {None}
  /\ todo \in Seq(Ioctl)
  /\ failed \in BOOLEAN

Init ==
  /\ status = [ring |-> FALSE, tone |-> "MUTE", linefeed |-> "STANDBY"]
  /\ is_up = FALSE
  /\ hw = [ring |-> FALSE, tone |-> "MUTE", linefeed |-> "STANDBY",
           enc |-> FALSE, dec |-> FALSE]
  /\ call = None /\ todo = << >> /\ failed = FALSE

-----------------------------------------------------------------------------
Calls(req, ioctls) ==
  /\ call = None
  /\ call' = req
  /\ todo' = ioctls
  /\ failed' = FALSE
  /\ UNCHANGED <<status, is_up, hw>>

ab_FXS_line_ring(r) ==
  Calls(Req("ring", r), IF status.ring # r THEN <<Req("ring", r)>> ELSE << >>)

\* A tone that plays is stopped before another one starts.
Wrong_ToneIoctls(t) ==
  IF status.tone = t THEN << >> ELSE <<Req("tone", t)>>
ToneIoctls(t) ==
  CASE status.tone = t      -> << >>
    [] status.tone # t /\ (status.tone = "MUTE" \/ t = "MUTE")
                            -> <<Req("tone", t)>>
    [] OTHER                -> <<Req("tone", "MUTE"), Req("tone", t)>>

ab_FXS_line_tone(t) == Calls(Req("tone", t), ToneIoctls(t))

FeedIoctls(f) ==
  CASE status.linefeed = f -> << >>
    [] status.linefeed = "DISABLED" /\ f = "ACTIVE"
                           -> <<Req("linefeed", "STANDBY"), Req("linefeed", f)>>
    [] OTHER               -> <<Req("linefeed", f)>>

ab_FXS_line_feed(f) == Calls(Req("linefeed", f), FeedIoctls(f))

\* The encoder and the decoder, if is_up says that they are not there yet
ab_chan_media_switch(up) ==
  Calls(Req("media", up),
        IF is_up = up THEN << >> ELSE <<Req("enc", up), Req("dec", up)>>)

\* err_set_ioctl and the line functions: the status follows the hardware.
IoctlDone ==
  LET io == Head(todo) IN
  /\ todo # << >>
  /\ hw' = [hw EXCEPT ![io.what] = io.to]
  /\ status' = IF io \in LineCall THEN [status EXCEPT ![io.what] = io.to]
               ELSE status
  /\ todo' = Tail(todo)
  /\ UNCHANGED <<is_up, call, failed>>

\* A line function gives up; ab_chan_media_switch goes on to the decoder.
Wrong_StatusOfFailed(io) ==
  IF io \in LineCall THEN [status EXCEPT ![io.what] = io.to] ELSE status
StatusOfFailed(io) == status

IoctlFails ==
  /\ todo # << >>
  /\ failed' = TRUE
  /\ todo' = IF call \in MediaCall THEN Tail(todo) ELSE << >>
  /\ status' = StatusOfFailed(Head(todo))
  /\ UNCHANGED <<is_up, hw, call>>

\* The call returns 0 (~failed) or the error of an ioctl.
Returns ==
  /\ call # None /\ todo = << >>
  /\ call' = None
  /\ is_up' = IF call \in MediaCall /\ ~failed THEN call.to ELSE is_up
  /\ failed' = FALSE
  /\ UNCHANGED <<status, hw, todo>>

Next ==
  \/ \E r \in BOOLEAN : ab_FXS_line_ring(r)
  \/ \E t \in Tone : ab_FXS_line_tone(t)
  \/ \E f \in Linefeed : ab_FXS_line_feed(f)
  \/ \E up \in BOOLEAN : ab_chan_media_switch(up)
  \/ IoctlDone \/ IoctlFails \/ Returns

Spec == Init /\ [][Next]_vars

-----------------------------------------------------------------------------
(***************************************************************************)
(* Properties                                                              *)
(***************************************************************************)
\* A line function that returns 0 has done what it was asked, also when the
\* cache let it skip the ioctl and whatever failed in earlier calls.
LineCallSucceeds ==
  call \in LineCall /\ todo = << >> /\ ~failed => hw[call.what] = call.to

\* The hardware does what FxsLine says, for any sequence of calls.
Line == INSTANCE FxsLine
          WITH ring <- hw.ring, tone <- hw.tone, linefeed <- hw.linefeed
LineIsKept == Line!Spec

(***************************************************************************)
(* What comments of the code say and the code does not do.                 *)
(***************************************************************************)
\* ab_chan_media_switch returns "0 in success case" (ab_media.c:551): then
\* the encoder and the decoder are both in the state asked for.
MediaSwitchSucceeds ==
  call \in MediaCall /\ todo = << >> /\ ~failed
    => hw.enc = call.to /\ hw.dec = call.to
=============================================================================
