------------------------------ MODULE SvdMedia ------------------------------
(***************************************************************************)
(* The media of the calls of one channel: what the SDP of the peer and the *)
(* local one leave in the channel context, and what ab_chan_media_activate *)
(* and ab_chan_media_deactivate make of it in the hardware, through the    *)
(* calls of libab (module AbChan).                                         *)
(*                                                                         *)
(* svd is one thread: a handler of svd_i_state is a job, the list of the   *)
(* libab calls that it has still to make, and no other handler starts      *)
(* before the job is done.                                                 *)
(*                                                                         *)
(* Abstracted: of an SDP, all but its first codec with its payload type,   *)
(* its telephone-event and the address; packet lengths, gains, silence     *)
(* suppression, jitter buffer and windows, which each activation reads     *)
(* from g_conf.  The name of a codec fits into sdp_cod_name.               *)
(***************************************************************************)
EXTENDS AbChan, Integers

CONSTANTS Codec,          \* the codecs of g_conf.cp but TelephoneEvent
          ALAW,           \* the one that also carries faxes
          TelephoneEvent, \* its name and its type, TELEPHONE_EVENT_CODEC
          Sdp,            \* what a session description may say
          FaxPayload      \* g_conf.fax.external_pt

NoPayload == -1

ASSUME MediaAssumption ==
  /\ ALAW \in Codec /\ TelephoneEvent \notin Codec
  /\ None \notin Codec \union {TelephoneEvent}
  /\ FaxPayload \in Nat
  /\ \A s \in Sdp : /\ DOMAIN s = {"cod", "pt", "te", "peer"}
                    /\ s.pt \in Nat /\ s.te \in Nat \union {NoPayload}
  /\ None \notin Sdp

VARIABLES sip,      \* what the channel knows of its call
          rfc2883,  \* does the account of the call use telephone-event?
          ctx,      \* sdp_cod_name, sdp_payload, te_payload, remote_host/port
          rtp,      \* the media settings of the hardware
          job,      \* what the handler that runs has still to do
          media,    \* history: "on", "off": what the last function of media did
          clean     \* history: has a failed switch left is_up wrong?

mediaVars == <<sip, rfc2883, ctx, rtp, job, media, clean>>

\* svd_clear_call, the fields of the SDP
Wrong_NoSdp == [cod |-> None, pt |-> NoPayload, te |-> ctx.te, peer |-> None]
NoSdp == [cod |-> None, pt |-> NoPayload, te |-> NoPayload, peer |-> None]

MediaInit ==
  /\ Init
  /\ sip = "none" /\ rfc2883 = FALSE
  /\ ctx = [cod |-> None, pt |-> NoPayload, te |-> NoPayload, peer |-> None]
  /\ rtp = [enc |-> None, pts |-> [c \in Codec |-> 0], te |-> NoPayload,
            wlec |-> FALSE]
  /\ job = << >>
  /\ media = "off" /\ clean = TRUE

Idle == job = << >> /\ call = None

-----------------------------------------------------------------------------
(***************************************************************************)
(* Session descriptions                                                    *)
(***************************************************************************)
\* svd_set_te_codec: a description without telephone-event changes nothing
TePayload(s) == IF rfc2883 /\ s.te # NoPayload THEN s.te ELSE ctx.te

\* svd_parse_sdp with what the peer sends, None if the event has no SDP
ParseSdp(s) ==
  IF s = None THEN ctx
  ELSE IF s.peer = None THEN ctx
  ELSE [cod |-> s.cod, pt |-> s.pt, peer |-> s.peer, te |-> TePayload(s)]

\* svd_media_tapi_handle_local_data: is a packet of the line sent on?
Forwards == ctx.peer # None

Learns(c) ==
  /\ ctx' = c
  /\ media' = IF c # ctx /\ media = "on" THEN "unknown" ELSE media

\* The answer that svd_answer has sent, as nua_get_hparams tells it
svd_r_get_params(s) ==
  /\ Idle /\ sip = "answered"
  /\ Learns([cod |-> s.cod, pt |-> s.pt, te |-> TePayload(s), peer |-> ctx.peer])
  /\ UNCHANGED <<vars, sip, rfc2883, rtp, job, clean>>

-----------------------------------------------------------------------------
(***************************************************************************)
(* Handlers                                                                *)
(***************************************************************************)
\* svd_i_invite, which rings the line, or svd_invite_to
NewCall(state, steps) ==
  /\ Idle /\ sip = "none"
  /\ sip' = state /\ rfc2883' \in BOOLEAN
  /\ job' = steps
  /\ UNCHANGED <<vars, ctx, rtp, media, clean>>

svd_i_invite == NewCall("called", <<Req("ring", TRUE)>>)
svd_invite_to == NewCall("calling", << >>)

\* svd_answer sends 200 and asks for the parameters, or it fails and does not.
svd_answer ==
  /\ Idle /\ sip = "called"
  /\ sip' = "answered"
  /\ UNCHANGED <<vars, rfc2883, ctx, rtp, job, media, clean>>

\* svd_i_cancel: no media was started
svd_i_cancel ==
  /\ Idle /\ sip \in {"called", "answered"}
  /\ job' = <<Req("ring", FALSE), Req("clear", None)>>
  /\ UNCHANGED <<vars, sip, rfc2883, ctx, rtp, media, clean>>

\* svd_i_state, from the SDP of the event to the end of the handler
i_state(from, state, s, steps) ==
  /\ Idle /\ sip \in from
  /\ Learns(ParseSdp(s))
  /\ sip' = state
  /\ job' = steps
  /\ UNCHANGED <<vars, rfc2883, rtp, clean>>

Activate == <<Req("prepare", None), Req("rtp_tune", None),
              Req("jb_tune", None), Req("wlec_tune", TRUE), Req("media", TRUE)>>
Wrong_Deactivate == <<Req("wlec_tune", FALSE)>>
Deactivate == <<Req("media", FALSE), Req("wlec_tune", FALSE)>>
CallIsOver == <<Req("clear", None), Req("ring", FALSE), Req("tone", "BUSY")>>

i_state_sdp(s) == i_state({"called", "calling", "ready"}, sip, s, << >>)
i_state_ready(s) ==
  i_state({"answered", "calling", "ready"}, "ready", s,
          <<Req("tone", "MUTE")>> \o Activate)
i_state_terminated(s) ==
  i_state({"called", "calling", "answered", "ready"}, "ended", s,
          Deactivate \o CallIsOver)

-----------------------------------------------------------------------------
(***************************************************************************)
(* The steps of a job                                                      *)
(***************************************************************************)
MediaStep(s) == s.what \in {"prepare", "rtp_tune", "jb_tune", "wlec_tune", "media"}

\* A media step that fails ends ab_chan_media_activate, the last thing that
\* the handler does, or _deactivate; a line function that fails is only logged.
Wrong_Rest(ok) == Tail(job)
Rest(ok) == IF ok \/ ~MediaStep(Head(job)) THEN Tail(job)
            ELSE IF sip = "ended" THEN CallIsOver ELSE << >>

\* A step is over: 0 is what the last one of its function returns.
StepEnds(ok) ==
  /\ job' = Rest(ok)
  /\ media' = CASE Head(job) = Req("media", TRUE) /\ ok       -> "on"
                [] Head(job) = Req("wlec_tune", FALSE) /\ ok  -> "off"
                [] MediaStep(Head(job)) /\ ~ok                -> "unknown"
                [] OTHER                                      -> media

Step(what) == call = None /\ job # << >> /\ Head(job).what = what

\* svd_prepare_chan_codecs: the name must be one of g_conf.cp
Prepared == ctx.cod \in Codec \union {TelephoneEvent}

svd_prepare_chan_codecs ==
  /\ Step("prepare")
  /\ StepEnds(Prepared)
  /\ UNCHANGED <<vars, sip, rfc2883, ctx, rtp, clean>>

\* ab_chan_media_rtp_tune.  It knows no coder for telephone-event and then
\* sets none; the payload type of faxes overwrites that of ALAW.
EncoderOf(cod) == IF cod \in Codec THEN cod ELSE None

PayloadTable ==
  [c \in Codec |-> IF c = ALAW THEN FaxPayload
                   ELSE IF c = ctx.cod THEN ctx.pt ELSE 0]

\* All its ioctls are made, and any of them may fail.
ab_chan_media_rtp_tune(fails) ==
  /\ Step("rtp_tune")
  /\ rtp' = [pts  |-> IF "pts" \in fails THEN rtp.pts ELSE PayloadTable,
             te   |-> IF "te" \in fails THEN rtp.te ELSE ctx.te,
             enc  |-> IF "enc" \in fails THEN rtp.enc ELSE EncoderOf(ctx.cod),
             wlec |-> rtp.wlec]
  /\ StepEnds(fails = {})
  /\ UNCHANGED <<vars, sip, rfc2883, ctx, clean>>

ab_chan_media_jb_tune(ok) ==
  /\ Step("jb_tune")
  /\ StepEnds(ok)
  /\ UNCHANGED <<vars, sip, rfc2883, ctx, rtp, clean>>

ab_chan_media_wlec_tune(ok) ==
  /\ Step("wlec_tune")
  /\ rtp' = IF ok THEN [rtp EXCEPT !.wlec = Head(job).to] ELSE rtp
  /\ StepEnds(ok)
  /\ UNCHANGED <<vars, sip, rfc2883, ctx, clean>>

svd_clear_call ==
  /\ Step("clear")
  /\ ctx' = NoSdp
  /\ sip' = "none" /\ rfc2883' = FALSE
  /\ StepEnds(TRUE)
  /\ UNCHANGED <<vars, rtp, clean>>

\* A call of libab, for the job or for the handlers of the phone, which ring,
\* feed and play tones whenever no job is under way
Request(req) ==
  \/ \E r \in BOOLEAN : req = Req("ring", r) /\ ab_FXS_line_ring(r)
  \/ \E t \in Tone : req = Req("tone", t) /\ ab_FXS_line_tone(t)
  \/ \E f \in Linefeed : req = Req("linefeed", f) /\ ab_FXS_line_feed(f)
  \/ \E up \in BOOLEAN : req = Req("media", up) /\ ab_chan_media_switch(up)

LibraryCall ==
  /\ \/ job # << >> /\ Request(Head(job))
     \/ job = << >> /\ \E req \in LineCall : Request(req)
  /\ UNCHANGED mediaVars

LibraryIoctl == (IoctlDone \/ IoctlFails) /\ UNCHANGED mediaVars

\* A switch that fails may leave one of the coders behind; one that succeeds
\* and had something to do puts both in their place.
LibraryReturns ==
  /\ Returns
  /\ clean' = IF call \notin MediaCall THEN clean
              ELSE ~failed /\ (clean \/ is_up # call.to)
  /\ IF job = << >> THEN UNCHANGED <<job, media>> ELSE StepEnds(~failed)
  /\ UNCHANGED <<sip, rfc2883, ctx, rtp>>

Handler ==
  \/ svd_i_invite \/ svd_invite_to \/ svd_answer \/ svd_i_cancel
  \/ \E s \in Sdp : svd_r_get_params(s)
  \/ \E s \in Sdp \union {None} :
       i_state_sdp(s) \/ i_state_ready(s) \/ i_state_terminated(s)

JobStep ==
  \/ svd_prepare_chan_codecs
  \/ \E fails \in SUBSET {"pts", "te", "enc", "other"} :
       ab_chan_media_rtp_tune(fails)
  \/ \E ok \in BOOLEAN : ab_chan_media_jb_tune(ok) \/ ab_chan_media_wlec_tune(ok)
  \/ svd_clear_call
  \/ LibraryCall \/ LibraryIoctl \/ LibraryReturns

MediaNext == Handler \/ JobStep

MediaSpec == MediaInit /\ [][MediaNext]_<<vars, mediaVars>>

-----------------------------------------------------------------------------
(***************************************************************************)
(* Properties                                                              *)
(***************************************************************************)
\* Once ab_chan_media_activate has returned 0 the hardware codes as the last
\* SDP says, also in a second activation of the call and whatever an earlier
\* one that failed half-way had set: the encoder, its payload type (but for
\* ALAW, which has that of faxes), the payload type of events.
AgreedCoder ==
  media = "on" =>
    /\ rtp.enc = EncoderOf(ctx.cod)
    /\ ctx.cod \in Codec \ {ALAW} => rtp.pts[ctx.cod] = ctx.pt
    /\ rtp.te = ctx.te /\ rtp.wlec

\* Nothing of one call reaches the next, where svd_set_te_codec might leave it:
\* without a call there is no payload type of events and no address to send
\* voice to, and in a call events need an account that uses telephone-event.
OnlyWhatWasSaid ==
  /\ Idle /\ sip = "none" => ctx.te = NoPayload /\ ~Forwards
  /\ ctx.te # NoPayload => rfc2883

\* When the end of a call has returned 0 the coders are off, unless a switch
\* that failed has left the cache wrong and none has put it right since.
MediaOffAfterCall ==
  Idle /\ media = "off" /\ clean => ~hw.enc /\ ~hw.dec /\ ~rtp.wlec
=============================================================================
