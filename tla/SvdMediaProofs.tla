--------------------------- MODULE SvdMediaProofs ---------------------------
(***************************************************************************)
(* The media of a channel are as the calls ask, for any set of codecs and  *)
(* descriptions.  The argument: the job of a handler is one of a few lists *)
(* of steps (JobPlan), each of which has reached what the steps before it  *)
(* were for (Agreed, Off); the cache of libab knows the coders as long as  *)
(* no switch has failed (Coders); and whatever svd does is a sequence of   *)
(* calls of libab, so what AbChanProofs says of any sequence holds here.   *)
(***************************************************************************)
EXTENDS SvdMedia, AbChanProofs, SequenceTheorems

ChannelIsRecord ==
  /\ ctx = [cod |-> ctx.cod, pt |-> ctx.pt, te |-> ctx.te, peer |-> ctx.peer]
  /\ rtp = [enc |-> rtp.enc, pts |-> rtp.pts, te |-> rtp.te, wlec |-> rtp.wlec]
  /\ rtp.wlec \in BOOLEAN

\* What OnlyWhatWasSaid asks, also while a handler runs
Said ==
  /\ sip = "none" => ctx.te = NoPayload /\ ctx.peer = None
  /\ ctx.te # NoPayload => rfc2883

\* The steps of the jobs
MediaOn == Req("media", TRUE)
WlecOn == Req("wlec_tune", TRUE)
JbTune == Req("jb_tune", None)
RtpTune == Req("rtp_tune", None)
Prepare == Req("prepare", None)
Mute == Req("tone", "MUTE")
Busy == Req("tone", "BUSY")
RingOff == Req("ring", FALSE)
RingOn == Req("ring", TRUE)
Clear == Req("clear", None)
MediaOff == Req("media", FALSE)
WlecOff == Req("wlec_tune", FALSE)

\* The lists that Activate, Deactivate and CallIsOver become step by step
Act6 == <<MediaOn>>
Act5 == <<WlecOn, MediaOn>>
Act4 == <<JbTune, WlecOn, MediaOn>>
Act3 == <<RtpTune, JbTune, WlecOn, MediaOn>>
Act2 == <<Prepare, RtpTune, JbTune, WlecOn, MediaOn>>
Act1 == <<Mute, Prepare, RtpTune, JbTune, WlecOn, MediaOn>>
End5 == <<Busy>>
End4 == <<RingOff, Busy>>
End3 == <<Clear, RingOff, Busy>>
End2 == <<WlecOff, Clear, RingOff, Busy>>
End1 == <<MediaOff, WlecOff, Clear, RingOff, Busy>>
Ring == <<RingOn>>
Cancel2 == <<Clear>>
Cancel1 == <<RingOff, Clear>>

\* The handler that runs, and what it has still to do
JobPlan ==
  \/ job = << >> /\ sip # "ended"
  \/ sip = "called" /\ job = Ring
  \/ sip \in {"called", "answered"} /\ job \in {Cancel1, Cancel2}
  \/ sip = "ready" /\ job \in {Act1, Act2, Act3, Act4, Act5, Act6}
  \/ sip = "ended" /\ job \in {End1, End2, End3}
  \/ sip = "none" /\ job \in {End4, End5}

CallOfJob ==
  \/ call = None
  \/ job = << >> /\ call \in LineCall
  \/ job # << >> /\ call = Head(job)

Doing(req) == job # << >> /\ Head(job) = req

RtpAgrees ==
  /\ rtp.enc = EncoderOf(ctx.cod)
  /\ ctx.cod \in Codec \ {ALAW} => rtp.pts[ctx.cod] = ctx.pt
  /\ rtp.te = ctx.te

\* How far an activation has come
Agreed ==
  /\ Doing(JbTune) => RtpAgrees
  /\ Doing(WlecOn) => RtpAgrees
  /\ Doing(MediaOn) => RtpAgrees /\ rtp.wlec
  /\ media = "on" => /\ RtpAgrees /\ rtp.wlec
                     /\ sip \in {"ready", "ended"}
                     /\ ~Doing(Clear)

\* How far a deactivation has come
Off ==
  /\ Doing(WlecOff) => ~is_up
  /\ media = "off" => ~is_up /\ (~rtp.wlec \/ Doing(MediaOn))

\* What is_up says of the coders
Coders ==
  /\ call \notin MediaCall /\ clean => hw.enc = is_up /\ hw.dec = is_up
  /\ call \in MediaCall /\ ~failed /\ (clean \/ is_up # call.to) =>
       /\ todo = << >> => hw.enc = call.to /\ hw.dec = call.to
       /\ todo = <<Req("dec", call.to)>> => hw.enc = call.to

MediaInv ==
  ChannelIsRecord /\ Said /\ JobPlan /\ CallOfJob /\ Agreed /\ Off /\ Coders

-----------------------------------------------------------------------------
\* Whatever a handler does, the channel of libab takes a step of its own or none.
LEMMA MediaIsChan == MediaSpec => Spec
<1>1. MediaInit => Init
  BY DEF MediaInit
<1>2. [MediaNext]_<<vars, mediaVars>> => [Next]_vars
  <2>1. ASSUME Handler
        PROVE  UNCHANGED vars
    BY <2>1 DEF Handler, svd_i_invite, svd_invite_to, NewCall, svd_answer,
       svd_i_cancel, svd_r_get_params, i_state_sdp, i_state_ready,
       i_state_terminated, i_state
  <2>2. ASSUME JobStep
        PROVE  [Next]_vars
    <3>1. CASE LibraryCall
      BY <3>1 DEF LibraryCall, Request, Next
    <3>2. CASE LibraryIoctl \/ LibraryReturns
      BY <3>2 DEF LibraryIoctl, LibraryReturns, Next
    <3>3. QED
      BY <2>2, <3>1, <3>2 DEF JobStep, svd_prepare_chan_codecs,
         ab_chan_media_rtp_tune, ab_chan_media_jb_tune,
         ab_chan_media_wlec_tune, svd_clear_call
  <2>3. QED
    BY <2>1, <2>2 DEF MediaNext
<1>3. QED
  BY <1>1, <1>2, PTL DEF MediaSpec, Spec

\* A line function that returns 0 has done what it was asked, also with the
\* handlers of svd as its callers.
THEOREM ZeroMeansDoneForCalls == MediaSpec => []LineCallSucceeds
BY MediaIsChan, ZeroMeansDone, PTL

\* The calls of svd and their media keep the line to what FxsLine allows.
THEOREM CallsKeepLine == MediaSpec => LineIsKept
BY MediaIsChan, ImplementsLine, PTL

-----------------------------------------------------------------------------
LEMMA OneThenFive ==
  ASSUME NEW a, NEW b, NEW c, NEW d, NEW e, NEW f
  PROVE  <<a>> \o <<b, c, d, e, f>> = <<a, b, c, d, e, f>>
<1> DEFINE s == <<a>> \o <<b, c, d, e, f>>
<1>1. /\ s[1] = a /\ s[2] = b /\ s[3] = c /\ s[4] = d /\ s[5] = e /\ s[6] = f
      /\ Len(s) = 6 /\ s \in Seq({a, b, c, d, e, f})
  OBVIOUS
<1>2. /\ <<a, b, c, d, e, f>> \in Seq({a, b, c, d, e, f})
      /\ Len(<<a, b, c, d, e, f>>) = 6
  OBVIOUS
<1> HIDE DEF s
<1>3. \A i \in 1 .. 6 : s[i] = <<a, b, c, d, e, f>>[i]
  BY <1>1
<1>4. s = <<a, b, c, d, e, f>>
  BY <1>1, <1>2, <1>3, SeqEqual
<1>5. QED
  BY <1>4 DEF s

LEMMA TwoThenThree ==
  ASSUME NEW a, NEW b, NEW c, NEW d, NEW e
  PROVE  <<a, b>> \o <<c, d, e>> = <<a, b, c, d, e>>
<1> DEFINE s == <<a, b>> \o <<c, d, e>>
<1>1. /\ s[1] = a /\ s[2] = b /\ s[3] = c /\ s[4] = d /\ s[5] = e
      /\ Len(s) = 5 /\ s \in Seq({a, b, c, d, e})
  OBVIOUS
<1>2. <<a, b, c, d, e>> \in Seq({a, b, c, d, e}) /\ Len(<<a, b, c, d, e>>) = 5
  OBVIOUS
<1> HIDE DEF s
<1>3. \A i \in 1 .. 5 : s[i] = <<a, b, c, d, e>>[i]
  BY <1>1
<1>4. s = <<a, b, c, d, e>>
  BY <1>1, <1>2, <1>3, SeqEqual
<1>5. QED
  BY <1>4 DEF s

\* The steps of each list
LEMMA Lists ==
  /\ Act1 # << >> /\ Head(Act1) = Mute /\ Tail(Act1) = Act2
  /\ Act2 # << >> /\ Head(Act2) = Prepare /\ Tail(Act2) = Act3
  /\ Act3 # << >> /\ Head(Act3) = RtpTune /\ Tail(Act3) = Act4
  /\ Act4 # << >> /\ Head(Act4) = JbTune /\ Tail(Act4) = Act5
  /\ Act5 # << >> /\ Head(Act5) = WlecOn /\ Tail(Act5) = Act6
  /\ Act6 # << >> /\ Head(Act6) = MediaOn /\ Tail(Act6) = << >>
  /\ End1 # << >> /\ Head(End1) = MediaOff /\ Tail(End1) = End2
  /\ End2 # << >> /\ Head(End2) = WlecOff /\ Tail(End2) = End3
  /\ End3 # << >> /\ Head(End3) = Clear /\ Tail(End3) = End4
  /\ End4 # << >> /\ Head(End4) = RingOff /\ Tail(End4) = End5
  /\ End5 # << >> /\ Head(End5) = Busy /\ Tail(End5) = << >>
  /\ Ring # << >> /\ Head(Ring) = RingOn /\ Tail(Ring) = << >>
  /\ Cancel1 # << >> /\ Head(Cancel1) = RingOff /\ Tail(Cancel1) = Cancel2
  /\ Cancel2 # << >> /\ Head(Cancel2) = Clear /\ Tail(Cancel2) = << >>
<1>1. /\ Act1 # << >> /\ Head(Act1) = Mute /\ Tail(Act1) = Act2
      /\ Act2 # << >> /\ Head(Act2) = Prepare /\ Tail(Act2) = Act3
      /\ Act3 # << >> /\ Head(Act3) = RtpTune /\ Tail(Act3) = Act4
      /\ Act4 # << >> /\ Head(Act4) = JbTune /\ Tail(Act4) = Act5
      /\ Act5 # << >> /\ Head(Act5) = WlecOn /\ Tail(Act5) = Act6
      /\ Act6 # << >> /\ Head(Act6) = MediaOn /\ Tail(Act6) = << >>
  BY DEF Act1, Act2, Act3, Act4, Act5, Act6
<1>2. /\ End1 # << >> /\ Head(End1) = MediaOff /\ Tail(End1) = End2
      /\ End2 # << >> /\ Head(End2) = WlecOff /\ Tail(End2) = End3
      /\ End3 # << >> /\ Head(End3) = Clear /\ Tail(End3) = End4
      /\ End4 # << >> /\ Head(End4) = RingOff /\ Tail(End4) = End5
      /\ End5 # << >> /\ Head(End5) = Busy /\ Tail(End5) = << >>
  BY DEF End1, End2, End3, End4, End5
<1>3. /\ Ring # << >> /\ Head(Ring) = RingOn /\ Tail(Ring) = << >>
      /\ Cancel1 # << >> /\ Head(Cancel1) = RingOff /\ Tail(Cancel1) = Cancel2
      /\ Cancel2 # << >> /\ Head(Cancel2) = Clear /\ Tail(Cancel2) = << >>
  BY DEF Ring, Cancel1, Cancel2
<1>4. QED
  BY <1>1, <1>2, <1>3

LEMMA Starts ==
  /\ <<Req("tone", "MUTE")>> \o Activate = Act1
  /\ Deactivate \o CallIsOver = End1
  /\ CallIsOver = End3
<1>1. Activate = <<Prepare, RtpTune, JbTune, WlecOn, MediaOn>>
  BY DEF Activate, Prepare, RtpTune, JbTune, WlecOn, MediaOn
<1>2. Deactivate = <<MediaOff, WlecOff>>
  BY DEF Deactivate, MediaOff, WlecOff
<1>3. CallIsOver = <<Clear, RingOff, Busy>>
  BY DEF CallIsOver, Clear, RingOff, Busy
<1>4. Req("tone", "MUTE") = Mute
  BY DEF Mute
<1>5. QED
  BY <1>1, <1>2, <1>3, <1>4, OneThenFive, TwoThenThree DEF Act1, End1, End3

\* Which step is which
LEMMA Names ==
  /\ Mute.what = "tone" /\ Busy.what = "tone"
  /\ RingOn.what = "ring" /\ RingOff.what = "ring"
  /\ Prepare.what = "prepare" /\ RtpTune.what = "rtp_tune"
  /\ JbTune.what = "jb_tune" /\ Clear.what = "clear"
  /\ WlecOn.what = "wlec_tune" /\ WlecOn.to = TRUE
  /\ WlecOff.what = "wlec_tune" /\ WlecOff.to = FALSE
  /\ MediaOn.what = "media" /\ MediaOn.to = TRUE
  /\ MediaOff.what = "media" /\ MediaOff.to = FALSE
BY DEF Mute, Busy, RingOn, RingOff, Prepare, RtpTune, JbTune, Clear, WlecOn,
   WlecOff, MediaOn, MediaOff, Req

LEMMA Kinds ==
  /\ Head(Act1).what = "tone" /\ Head(Act2).what = "prepare"
  /\ Head(Act3).what = "rtp_tune" /\ Head(Act4).what = "jb_tune"
  /\ Head(Act5).what = "wlec_tune" /\ Head(Act6).what = "media"
  /\ Head(End1).what = "media" /\ Head(End2).what = "wlec_tune"
  /\ Head(End3).what = "clear" /\ Head(End4).what = "ring"
  /\ Head(End5).what = "tone" /\ Head(Ring).what = "ring"
  /\ Head(Cancel1).what = "ring" /\ Head(Cancel2).what = "clear"
BY Lists, Names

\* What a step that is over leaves is one of the lists again.
LEMMA PlanGoesOn ==
  ASSUME JobPlan, job # << >>, Head(job).what # "clear",
         NEW ok \in BOOLEAN, job' = Rest(ok), sip' = sip
  PROVE  JobPlan'
<1>1. job' = CASE ok \/ ~MediaStep(Head(job)) -> Tail(job)
               [] ~(ok \/ ~MediaStep(Head(job))) /\ sip = "ended" -> End3
               [] OTHER -> << >>
  BY Starts DEF Rest
<1>2. CASE sip = "ready" /\ job \in {Act1, Act2, Act3, Act4, Act5, Act6}
  <2>1. job' = Tail(job) \/ job' = << >>
    BY <1>1, <1>2
  <2>2. Tail(job) \in {<< >>, Act2, Act3, Act4, Act5, Act6}
    BY <1>2, Lists
  <2>3. QED
    BY <1>2, <2>1, <2>2 DEF JobPlan
<1>3. CASE sip = "ended" /\ job \in {End1, End2, End3}
  <2>1. job \in {End1, End2}
    BY <1>3, Lists, Names
  <2>2. Tail(job) \in {End2, End3}
    BY <2>1, Lists
  <2>3. MediaStep(Head(job))
    BY <2>1, Lists, Names DEF MediaStep
  <2>4. job' \in {End2, End3}
    BY <1>1, <1>3, <2>2, <2>3
  <2>5. QED
    BY <1>3, <2>4 DEF JobPlan
<1>4. CASE job \in {Ring, Cancel1, Cancel2, End4, End5}
  <2>1. job \in {Ring, Cancel1, End4, End5}
    BY <1>4, Lists, Names
  <2>2. ~MediaStep(Head(job))
    BY <2>1, Lists, Names DEF MediaStep
  <2>3. job' = Tail(job)
    BY <1>1, <2>2
  <2>4. CASE job = Cancel1
    <3>1. Tail(job) = Cancel2 /\ Head(job).what = "ring"
      BY <2>4, Lists, Kinds
    <3>2. job \notin {Act1, Act2, Act3, Act4, Act5, Act6, End1, End2, End3, End5}
      BY <3>1, Kinds
    <3>3. job # End4 /\ job # Ring
      <4>1. Cancel2 # End5 /\ Cancel2 # << >>
        BY Lists, Kinds
      <4>2. QED
        BY <3>1, <4>1, Lists
    <3>4. sip \in {"called", "answered"}
      BY <2>4, <3>2, <3>3 DEF JobPlan
    <3>5. QED
      BY <2>3, <3>1, <3>4 DEF JobPlan
  <2>5. CASE job = Ring
    BY <2>3, <2>5, Lists, Names DEF JobPlan
  <2>6. CASE job \in {End4, End5}
    <3>1. job # << >> /\ job \notin {End1, End2, End3}
      BY <2>6, Lists, Kinds
    <3>2. CASE job = End5
      <4>1. job' = << >> /\ sip # "ended"
        BY <2>3, <3>1, <3>2, Lists DEF JobPlan
      <4>2. QED
        BY <4>1 DEF JobPlan
    <3>3. CASE job = End4
      <4>1. Tail(job) = End5 /\ Head(job).what = "ring"
        BY <3>3, Lists, Kinds
      <4>2. job \notin {Act1, Act2, Act3, Act4, Act5, Act6, Cancel2}
        BY <4>1, Kinds
      <4>3. job # Cancel1 /\ job # Ring
        <5>1. End5 # Cancel2 /\ End5 # << >>
          BY Lists, Kinds
        <5>2. QED
          BY <4>1, <5>1, Lists
      <4>4. sip = "none"
        BY <3>1, <3>3, <4>2, <4>3 DEF JobPlan
      <4>5. QED
        BY <2>3, <4>1, <4>4 DEF JobPlan
    <3>4. QED
      BY <2>6, <3>2, <3>3
  <2>7. QED
    BY <2>1, <2>4, <2>5, <2>6
<1>5. QED
  BY <1>2, <1>3, <1>4 DEF JobPlan

\* What is to be done next, by the step that is under way
LEMMA PlanSteps ==
  ASSUME JobPlan, job # << >>
  PROVE  /\ Head(job).what = "prepare" => sip = "ready" /\ job = Act2
         /\ Head(job).what = "rtp_tune" => sip = "ready" /\ job = Act3
         /\ Head(job).what = "jb_tune" => sip = "ready" /\ job = Act4
         /\ Head(job).what = "wlec_tune" =>
              (sip = "ready" /\ job = Act5) \/ (sip = "ended" /\ job = End2)
         /\ Head(job).what = "media" =>
              (sip = "ready" /\ job = Act6) \/ (sip = "ended" /\ job = End1)
         /\ Head(job).what = "clear" =>
              \/ sip = "ended" /\ job = End3
              \/ sip \in {"called", "answered"} /\ job = Cancel2
<1>1. CASE sip = "ready" /\ job \in {Act1, Act2, Act3, Act4, Act5, Act6}
  <2>1. CASE job \in {Act1, Act2, Act3}
    BY <1>1, <2>1, Kinds
  <2>2. CASE job = Act4
    BY <1>1, <2>2, Kinds
  <2>3. CASE job = Act5
    <3>1. Head(job).what = "wlec_tune"
      BY <2>3, Kinds
    <3>2. sip = "ready"
      BY <1>1
    <3>3. Head(job).what \notin {"prepare", "rtp_tune", "jb_tune", "media", "clear"}
      BY <3>1
    <3>4. QED
      BY <2>3, <3>2, <3>3
  <2>4. CASE job = Act6
    <3>1. Head(job).what = "media"
      BY <2>4, Kinds
    <3>2. sip = "ready"
      BY <1>1
    <3>3. Head(job).what \notin {"prepare", "rtp_tune", "jb_tune", "wlec_tune", "clear"}
      BY <3>1
    <3>4. QED
      BY <2>4, <3>2, <3>3
  <2>5. QED
    BY <1>1, <2>1, <2>2, <2>3, <2>4
<1>2. CASE sip = "ended" /\ job \in {End1, End2, End3}
  BY <1>2, Kinds
<1>3. CASE sip \in {"called", "answered"} /\ job \in {Ring, Cancel1, Cancel2}
  BY <1>3, Kinds
<1>4. CASE sip = "none" /\ job \in {End4, End5}
  BY <1>4, Kinds
<1>5. QED
  BY <1>1, <1>2, <1>3, <1>4 DEF JobPlan

-----------------------------------------------------------------------------
LEMMA InitMedia == MediaInit => MediaInv
<1>1. MediaInit => ChannelIsRecord /\ Said
  BY DEF MediaInit, ChannelIsRecord, Said
<1>2. MediaInit => JobPlan /\ CallOfJob /\ Agreed /\ Off
  BY DEF MediaInit, Init, JobPlan, CallOfJob, Agreed, Off, Doing
<1>3. MediaInit => Coders
  <2>1. None \notin MediaCall
    BY Requests
  <2>2. MediaInit => call = None /\ hw.enc = FALSE /\ hw.dec = FALSE /\ is_up = FALSE
    BY DEF MediaInit, Init
  <2>3. QED
    BY <2>1, <2>2 DEF Coders
<1>4. QED
  BY <1>1, <1>2, <1>3 DEF MediaInv

LEMMA StutterKeepsMedia ==
  ASSUME MediaInv, UNCHANGED <<vars, mediaVars>>
  PROVE  MediaInv'
BY DEF vars, mediaVars, MediaInv, ChannelIsRecord, Said, JobPlan, CallOfJob,
   Agreed, RtpAgrees, Off, Coders, Doing

\* A handler starts when no other one and no call of libab is under way.
LEMMA HandlerKeepsMedia ==
  ASSUME MediaInv, Handler
  PROVE  MediaInv'
<1>1. /\ job = << >> /\ call = None
      /\ UNCHANGED <<vars, rtp, clean>>
  BY DEF Handler, svd_i_invite, svd_invite_to, NewCall, svd_answer, Idle,
     svd_i_cancel, svd_r_get_params, i_state_sdp, i_state_ready,
     i_state_terminated, i_state
<1>2. Coders' /\ CallOfJob'
  BY <1>1 DEF MediaInv, Coders, CallOfJob, vars
<1>3. ASSUME ctx' = ctx, job' # << >> => Head(job') \in {RingOn, RingOff},
             media' = media,
             sip \in {"ready", "ended"} => sip' \in {"ready", "ended"}
      PROVE  Agreed' /\ Off' /\ ChannelIsRecord'
  <2>1. job' = << >> \/ Head(job').what = "ring"
    BY <1>3, Names
  <2>2. Agreed'
    BY <1>1, <1>3, <2>1, Names DEF MediaInv, Agreed, Doing, RtpAgrees
  <2>3. Off'
    BY <1>1, <1>3, <2>1, Names DEF MediaInv, Off, Doing, vars
  <2>4. QED
    BY <1>1, <1>3, <2>2, <2>3 DEF MediaInv, ChannelIsRecord
<1>4. CASE svd_i_invite \/ svd_invite_to
  <2>1. /\ sip = "none" /\ UNCHANGED <<ctx, media>>
        /\ \/ sip' = "called" /\ job' = Ring
           \/ sip' = "calling" /\ job' = << >>
    BY <1>4 DEF svd_i_invite, svd_invite_to, NewCall, Ring, RingOn
  <2>2. Said' /\ JobPlan'
    BY <2>1 DEF MediaInv, Said, JobPlan
  <2>3. QED
    BY <1>2, <1>3, <2>1, <2>2, Lists DEF MediaInv
<1>5. CASE svd_answer
  <2>1. sip = "called" /\ sip' = "answered" /\ UNCHANGED <<rfc2883, ctx, job, media>>
    BY <1>5 DEF svd_answer
  <2>2. Said' /\ JobPlan'
    BY <1>1, <2>1 DEF MediaInv, Said, JobPlan
  <2>3. QED
    BY <1>1, <1>2, <1>3, <2>1, <2>2 DEF MediaInv
<1>6. CASE svd_i_cancel
  <2>1. /\ sip \in {"called", "answered"} /\ job' = Cancel1
        /\ UNCHANGED <<sip, rfc2883, ctx, media>>
    BY <1>6 DEF svd_i_cancel, Cancel1, RingOff, Clear
  <2>2. Said' /\ JobPlan'
    BY <2>1 DEF MediaInv, Said, JobPlan
  <2>3. QED
    BY <1>2, <1>3, <2>1, <2>2, Lists DEF MediaInv
<1>7. ASSUME NEW c, Learns(c),
             c = [cod |-> c.cod, pt |-> c.pt, te |-> c.te, peer |-> c.peer],
             job' # << >> => Head(job') \in {Mute, MediaOff},
             sip \in {"ready", "ended"} => sip' \in {"ready", "ended"}
      PROVE  Agreed' /\ Off' /\ ChannelIsRecord'
  <2>1. job' = << >> \/ Head(job').what = "tone" \/ Head(job') = MediaOff
    BY <1>7, Names
  <2>2. ctx' = c /\ media' = IF c # ctx /\ media = "on" THEN "unknown" ELSE media
    BY <1>7 DEF Learns
  <2>3. Agreed'
    <3>1. ~Doing(JbTune)' /\ ~Doing(WlecOn)' /\ ~Doing(MediaOn)' /\ ~Doing(Clear)'
      BY <2>1, Names DEF Doing
    <3>2. media' = "on" => media = "on" /\ ctx' = ctx
      BY <2>2
    <3>3. QED
      BY <1>1, <1>7, <3>1, <3>2 DEF MediaInv, Agreed, RtpAgrees
  <2>4. Off'
    <3>1. ~Doing(WlecOff)' /\ ~Doing(MediaOn) /\ media' = "off" => media = "off"
      BY <1>1, <2>1, <2>2, Names DEF Doing
    <3>2. ~Doing(WlecOff)' /\ ~Doing(MediaOn)
      BY <1>1, <2>1, Names DEF Doing
    <3>3. QED
      BY <1>1, <2>2, <3>1, <3>2 DEF MediaInv, Off, vars
  <2>5. QED
    BY <1>1, <1>7, <2>2, <2>3, <2>4 DEF MediaInv, ChannelIsRecord
<1>8. CASE \E s \in Sdp : svd_r_get_params(s)
  <2>1. PICK s \in Sdp : svd_r_get_params(s)
    BY <1>8
  <2>2. /\ sip = "answered" /\ UNCHANGED <<sip, rfc2883, job>>
        /\ Learns([cod |-> s.cod, pt |-> s.pt, te |-> TePayload(s), peer |-> ctx.peer])
    BY <2>1 DEF svd_r_get_params
  <2>3. Said' /\ JobPlan'
    BY <1>1, <2>2 DEF MediaInv, Said, JobPlan, Learns, TePayload
  <2>4. Agreed' /\ Off' /\ ChannelIsRecord'
    BY <1>1, <1>7, <2>2
  <2>5. QED
    BY <1>2, <2>3, <2>4 DEF MediaInv
<1>9. CASE \E s \in Sdp \union {None} :
             i_state_sdp(s) \/ i_state_ready(s) \/ i_state_terminated(s)
  <2>1. PICK s \in Sdp \union {None} :
               i_state_sdp(s) \/ i_state_ready(s) \/ i_state_terminated(s)
    BY <1>9
  <2>2. /\ Learns(ParseSdp(s)) /\ rfc2883' = rfc2883
        /\ \/ sip \in {"called", "calling", "ready"} /\ sip' = sip /\ job' = << >>
           \/ /\ sip \in {"answered", "calling", "ready"}
              /\ sip' = "ready" /\ job' = Act1
           \/ /\ sip \in {"called", "calling", "answered", "ready"}
              /\ sip' = "ended" /\ job' = End1
    BY <2>1, Starts DEF i_state_sdp, i_state_ready, i_state_terminated, i_state
  <2>3. JobPlan'
    BY <2>2 DEF JobPlan
  <2>4. /\ ParseSdp(s) = [cod |-> ParseSdp(s).cod, pt |-> ParseSdp(s).pt,
                          te |-> ParseSdp(s).te, peer |-> ParseSdp(s).peer]
        /\ ParseSdp(s).te # NoPayload => rfc2883
    BY DEF MediaInv, ChannelIsRecord, Said, ParseSdp, TePayload
  <2>5. Said'
    BY <2>2, <2>4 DEF Said, Learns
  <2>6. job' # << >> => Head(job') \in {Mute, MediaOff}
    BY <2>2, Lists
  <2>7. Agreed' /\ Off' /\ ChannelIsRecord'
    BY <1>7, <2>2, <2>4, <2>6
  <2>8. QED
    BY <1>2, <2>3, <2>5, <2>7 DEF MediaInv
<1>10. QED
  BY <1>4, <1>5, <1>6, <1>8, <1>9 DEF Handler

\* Where the end of a step leads
LEMMA Ends ==
  ASSUME JobPlan, job # << >>, NEW ok \in BOOLEAN, StepEnds(ok)
  PROVE  /\ job \in {Act2, Act3, Act4, Act5} =>
              media' = IF ok THEN media ELSE "unknown"
         /\ job = Act2 => job' = IF ok THEN Act3 ELSE << >>
         /\ job = Act3 => job' = IF ok THEN Act4 ELSE << >>
         /\ job = Act4 => job' = IF ok THEN Act5 ELSE << >>
         /\ job = Act5 => job' = IF ok THEN Act6 ELSE << >>
         /\ job = Act6 => job' = << >> /\ media' = IF ok THEN "on" ELSE "unknown"
         /\ job = End1 /\ sip = "ended" =>
              /\ job' = IF ok THEN End2 ELSE End3
              /\ media' = IF ok THEN media ELSE "unknown"
         /\ job = End2 /\ sip = "ended" =>
              job' = End3 /\ media' = IF ok THEN "off" ELSE "unknown"
         /\ Head(job).what \in {"ring", "tone", "clear"} =>
              job' = Tail(job) /\ media' = media
<1>1. /\ job' = IF ok \/ ~MediaStep(Head(job)) THEN Tail(job)
                ELSE IF sip = "ended" THEN End3 ELSE << >>
      /\ media' = CASE Head(job) = MediaOn /\ ok    -> "on"
                    [] Head(job) = WlecOff /\ ok    -> "off"
                    [] MediaStep(Head(job)) /\ ~ok  -> "unknown"
                    [] OTHER                        -> media
  BY Starts DEF StepEnds, Rest, MediaOn, WlecOff
<1>2. CASE job \in {Act2, Act3, Act4, Act5}
  <2>0. /\ Head(job).what \in {"prepare", "rtp_tune", "jb_tune", "wlec_tune"}
        /\ Head(job).what = "wlec_tune" => job = Act5
    BY <1>2, Kinds
  <2>1. /\ MediaStep(Head(job)) /\ Head(job) # MediaOn /\ Head(job) # WlecOff
        /\ sip # "ended"
    <3>1. MediaStep(Head(job))
      BY <2>0 DEF MediaStep
    <3>2. Head(job) # MediaOn
      BY <2>0, Names
    <3>3. Head(job) # WlecOff
      <4>1. CASE Head(job).what = "wlec_tune"
        BY <2>0, <4>1, Lists, Names
      <4>2. CASE Head(job).what # "wlec_tune"
        BY <4>2, Names
      <4>3. QED
        BY <4>1, <4>2
    <3>4. sip = "ready"
      <4>1. CASE Head(job).what = "wlec_tune"
        <5>1. job = Act5 /\ job # End2
          BY <2>0, <4>1, Lists, Names
        <5>2. QED
          BY <4>1, <5>1, PlanSteps
      <4>2. CASE Head(job).what # "wlec_tune"
        BY <2>0, <4>2, PlanSteps
      <4>3. QED
        BY <4>1, <4>2
    <3>5. QED
      BY <3>1, <3>2, <3>3, <3>4
  <2>2. Head(job).what \notin {"ring", "tone", "clear"}
    BY <2>0
  <2>3. job \notin {Act6, End1, End2}
    BY <2>1, <1>2, Lists, Names
  <2>4. QED
    BY <1>1, <1>2, <2>1, <2>2, <2>3, Lists, Kinds
<1>3. CASE job = Act6
  <2>1. MediaStep(Head(job)) /\ Head(job) = MediaOn /\ sip # "ended"
    BY <1>3, Lists, Names, Kinds, PlanSteps DEF MediaStep
  <2>2. job' = << >> /\ media' = IF ok THEN "on" ELSE "unknown"
    <3>1. job' = << >>
      BY <1>1, <1>3, <2>1, Lists
    <3>2. Head(job) # WlecOff
      BY <2>1, Names
    <3>3. QED
      BY <1>1, <2>1, <3>1, <3>2
  <2>3. job \notin {Act2, Act3, Act4, Act5, End1, End2}
    BY <1>3, Kinds, Lists, Names
  <2>4. QED
    BY <1>3, <2>1, <2>2, <2>3, Names
<1>4. CASE job \in {End1, End2}
  <2>1. MediaStep(Head(job)) /\ Head(job) # MediaOn /\ Tail(job) \in {End2, End3}
    BY <1>4, Lists, Names, Kinds DEF MediaStep
  <2>2. job \notin {Act2, Act3, Act4, Act5, Act6}
    BY <1>4, Kinds, Lists, Names
  <2>3. Head(job).what \notin {"ring", "tone", "clear"}
    BY <1>4, Kinds
  <2>4. job = End1 => job # End2 /\ Head(job) # WlecOff /\ Tail(job) = End2
    BY Kinds, Lists, Names
  <2>5. job = End2 => Head(job) = WlecOff /\ Tail(job) = End3
    BY Lists
  <2>6. QED
    BY <1>1, <1>4, <2>1, <2>2, <2>3, <2>4, <2>5
<1>5. CASE Head(job).what \in {"ring", "tone", "clear"}
  <2>1. ~MediaStep(Head(job)) /\ Head(job) # MediaOn /\ Head(job) # WlecOff
    BY <1>5, Names DEF MediaStep
  <2>2. job \notin {Act2, Act3, Act4, Act5, Act6, End1, End2}
    BY <1>5, Kinds
  <2>3. QED
    BY <1>1, <2>1, <2>2
<1>6. QED
  <2>1. job \in {Act2, Act3, Act4, Act5, Act6, End1, End2}
          \/ Head(job).what \in {"ring", "tone", "clear"}
    BY Kinds DEF JobPlan
  <2>2. QED
    BY <1>2, <1>3, <1>4, <1>5, <2>1

\* Which step each list begins with
LEMMA Situations ==
  ASSUME NEW req, Doing(req)
  PROVE  /\ job # << >>
         /\ job = Act2 => req = Prepare
         /\ job = Act3 => req = RtpTune
         /\ job = Act4 => req = JbTune
         /\ job = Act5 => req = WlecOn
         /\ job = Act6 => req = MediaOn
         /\ job = End1 => req = MediaOff
         /\ job = End2 => req = WlecOff
         /\ job = End3 => req = Clear
         /\ job = End4 => req = RingOff
         /\ job = End5 => req = Busy
         /\ job = Cancel2 => req = Clear
BY Lists DEF Doing

\* The steps of a job that are no calls of libab
LEMMA StepKeepsMedia ==
  ASSUME MediaInv,
         \/ svd_prepare_chan_codecs
         \/ \E fails \in SUBSET {"pts", "te", "enc", "other"} :
              ab_chan_media_rtp_tune(fails)
         \/ \E ok \in BOOLEAN : ab_chan_media_jb_tune(ok)
                               \/ ab_chan_media_wlec_tune(ok)
  PROVE  MediaInv'
<1>1. /\ UNCHANGED <<vars, clean, sip, rfc2883, ctx>> /\ call = None
      /\ job # << >> /\ Head(job).what # "clear"
      /\ \E ok \in BOOLEAN : StepEnds(ok)
  <2>1. Prepared \in BOOLEAN /\ \A fails : (fails = {}) \in BOOLEAN
    BY DEF Prepared
  <2>2. CASE svd_prepare_chan_codecs
    BY <2>1, <2>2 DEF svd_prepare_chan_codecs, Step
  <2>3. CASE \E fails \in SUBSET {"pts", "te", "enc", "other"} :
               ab_chan_media_rtp_tune(fails)
    BY <2>1, <2>3 DEF ab_chan_media_rtp_tune, Step
  <2>4. CASE \E ok \in BOOLEAN : ab_chan_media_jb_tune(ok)
                               \/ ab_chan_media_wlec_tune(ok)
    BY <2>4 DEF ab_chan_media_jb_tune, ab_chan_media_wlec_tune, Step
  <2>5. QED
    BY <2>2, <2>3, <2>4
<1>2. Coders' /\ CallOfJob' /\ Said'
  BY <1>1 DEF MediaInv, Coders, CallOfJob, Said, vars
<1>3. JobPlan'
  BY <1>1, PlanGoesOn DEF MediaInv, StepEnds
<1>4. CASE svd_prepare_chan_codecs
  <2>1. PICK ok \in BOOLEAN : StepEnds(ok) /\ rtp' = rtp /\ Head(job).what = "prepare"
    <3>1. Prepared \in BOOLEAN
      BY DEF Prepared
    <3>2. QED
      BY <1>4, <3>1 DEF svd_prepare_chan_codecs, Step
  <2>2. job = Act2 /\ sip = "ready"
    BY <1>1, <2>1, PlanSteps DEF MediaInv
  <2>3. job' \in {Act3, << >>} /\ media' \in {media, "unknown"}
    BY <1>1, <2>1, <2>2, Ends DEF MediaInv
  <2>4. job' = << >> \/ Head(job') = RtpTune
    BY <2>3, Lists
  <2>5. ~Doing(JbTune)' /\ ~Doing(WlecOn)' /\ ~Doing(MediaOn)' /\ ~Doing(Clear)'
          /\ ~Doing(WlecOff)'
    BY <2>4, Names DEF Doing
  <2>6. ~Doing(MediaOn)
    BY <2>2, Situations, Names
  <2>7. Agreed' /\ Off'
    BY <1>1, <2>1, <2>2, <2>3, <2>5, <2>6 DEF MediaInv, Agreed, Off, RtpAgrees, vars
  <2>8. QED
    BY <1>1, <1>2, <1>3, <2>1, <2>7 DEF MediaInv, ChannelIsRecord
<1>5. CASE \E fails \in SUBSET {"pts", "te", "enc", "other"} :
             ab_chan_media_rtp_tune(fails)
  <2>1. PICK fails \in SUBSET {"pts", "te", "enc", "other"} :
               ab_chan_media_rtp_tune(fails)
    BY <1>5
  <2>2. /\ StepEnds(fails = {}) /\ Head(job).what = "rtp_tune"
        /\ rtp' = [pts  |-> IF "pts" \in fails THEN rtp.pts ELSE PayloadTable,
                   te   |-> IF "te" \in fails THEN rtp.te ELSE ctx.te,
                   enc  |-> IF "enc" \in fails THEN rtp.enc ELSE EncoderOf(ctx.cod),
                   wlec |-> rtp.wlec]
    BY <2>1 DEF ab_chan_media_rtp_tune, Step
  <2>3. job = Act3 /\ sip = "ready"
    BY <1>1, <2>2, PlanSteps DEF MediaInv
  <2>4. /\ job' = IF fails = {} THEN Act4 ELSE << >>
        /\ media' = IF fails = {} THEN media ELSE "unknown"
    BY <1>1, <2>2, <2>3, Ends DEF MediaInv
  <2>5. ASSUME fails = {}
        PROVE  RtpAgrees'
    <3>1. rtp'.pts = PayloadTable /\ rtp'.te = ctx.te /\ rtp'.enc = EncoderOf(ctx.cod)
      BY <2>2, <2>5
    <3>2. ctx.cod \in Codec \ {ALAW} => PayloadTable[ctx.cod] = ctx.pt
      BY DEF PayloadTable
    <3>3. QED
      BY <1>1, <3>1, <3>2 DEF RtpAgrees, EncoderOf
  <2>6. job' = << >> \/ Head(job') = JbTune
    BY <2>4, Lists
  <2>7. ~Doing(WlecOn)' /\ ~Doing(MediaOn)' /\ ~Doing(Clear)' /\ ~Doing(WlecOff)'
    BY <2>6, Names DEF Doing
  <2>8. Doing(JbTune)' => fails = {}
    BY <2>4 DEF Doing
  <2>9. ~Doing(MediaOn)
    BY <2>3, Situations, Names
  <2>10. rtp'.wlec = rtp.wlec
    BY <2>2
  <2>11. Agreed' /\ Off'
    BY <1>1, <2>3, <2>4, <2>5, <2>7, <2>8, <2>9, <2>10 DEF MediaInv, Agreed, Off, vars
  <2>12. ChannelIsRecord'
    BY <1>1, <2>2 DEF MediaInv, ChannelIsRecord
  <2>13. QED
    BY <1>2, <1>3, <2>11, <2>12 DEF MediaInv
<1>6. CASE \E ok \in BOOLEAN : ab_chan_media_jb_tune(ok)
  <2>1. PICK ok \in BOOLEAN : StepEnds(ok) /\ rtp' = rtp /\ Head(job).what = "jb_tune"
    BY <1>6 DEF ab_chan_media_jb_tune, Step
  <2>2. job = Act4 /\ sip = "ready"
    BY <1>1, <2>1, PlanSteps DEF MediaInv
  <2>3. job' \in {Act5, << >>} /\ media' \in {media, "unknown"}
    BY <1>1, <2>1, <2>2, Ends DEF MediaInv
  <2>4. job' = << >> \/ Head(job') = WlecOn
    BY <2>3, Lists
  <2>5. ~Doing(JbTune)' /\ ~Doing(MediaOn)' /\ ~Doing(Clear)' /\ ~Doing(WlecOff)'
    BY <2>4, Names DEF Doing
  <2>6. RtpAgrees /\ ~Doing(MediaOn)
    BY <2>2, Lists, Situations, Names DEF MediaInv, Agreed, Doing
  <2>7. Agreed' /\ Off'
    BY <1>1, <2>1, <2>2, <2>3, <2>5, <2>6 DEF MediaInv, Agreed, Off, RtpAgrees, vars
  <2>8. QED
    BY <1>1, <1>2, <1>3, <2>1, <2>7 DEF MediaInv, ChannelIsRecord
<1>7. CASE \E ok \in BOOLEAN : ab_chan_media_wlec_tune(ok)
  <2>1. PICK ok \in BOOLEAN :
               /\ StepEnds(ok) /\ Head(job).what = "wlec_tune"
               /\ rtp' = IF ok THEN [rtp EXCEPT !.wlec = Head(job).to] ELSE rtp
    BY <1>7 DEF ab_chan_media_wlec_tune, Step
  <2>2. /\ rtp'.enc = rtp.enc /\ rtp'.pts = rtp.pts /\ rtp'.te = rtp.te
        /\ rtp'.wlec = IF ok THEN Head(job).to ELSE rtp.wlec
        /\ rtp' = [enc |-> rtp'.enc, pts |-> rtp'.pts, te |-> rtp'.te, wlec |-> rtp'.wlec]
    BY <2>1 DEF MediaInv, ChannelIsRecord
  <2>3. CASE job = Act5 /\ sip = "ready"
    <3>1. /\ job' = IF ok THEN Act6 ELSE << >>
          /\ media' = IF ok THEN media ELSE "unknown"
      BY <1>1, <2>1, <2>3, Ends DEF MediaInv
    <3>2. RtpAgrees /\ ~Doing(MediaOn) /\ Head(job) = WlecOn
      BY <2>3, Lists, Situations, Names DEF MediaInv, Agreed, Doing
    <3>3. /\ ok => Doing(MediaOn)' /\ rtp'.wlec = TRUE
          /\ ~Doing(JbTune)' /\ ~Doing(WlecOn)' /\ ~Doing(Clear)' /\ ~Doing(WlecOff)'
          /\ ~ok => ~Doing(MediaOn)'
      BY <2>2, <3>1, <3>2, Lists, Names DEF Doing
    <3>4. Agreed' /\ Off'
      BY <1>1, <2>2, <2>3, <3>1, <3>2, <3>3 DEF MediaInv, Agreed, Off, RtpAgrees, vars
    <3>5. ChannelIsRecord'
      BY <1>1, <2>2, <3>2, Names DEF MediaInv, ChannelIsRecord
    <3>6. QED
      BY <1>2, <1>3, <3>4, <3>5 DEF MediaInv
  <2>4. CASE job = End2 /\ sip = "ended"
    <3>1. job' = End3 /\ media' = IF ok THEN "off" ELSE "unknown"
      BY <1>1, <2>1, <2>4, Ends DEF MediaInv
    <3>2. Head(job) = WlecOff /\ ~is_up
      BY <2>4, Lists DEF MediaInv, Off, Doing
    <3>3. /\ ok => rtp'.wlec = FALSE
          /\ Head(job') = Clear
      BY <2>2, <3>1, <3>2, Lists, Names
    <3>4. ~Doing(JbTune)' /\ ~Doing(WlecOn)' /\ ~Doing(MediaOn)' /\ ~Doing(WlecOff)'
      BY <3>3, Names DEF Doing
    <3>5. Agreed' /\ Off'
      BY <1>1, <3>1, <3>2, <3>3, <3>4 DEF Agreed, Off, vars
    <3>6. ChannelIsRecord'
      BY <1>1, <2>2, <3>2, Names DEF MediaInv, ChannelIsRecord
    <3>7. QED
      BY <1>2, <1>3, <3>5, <3>6 DEF MediaInv
  <2>5. QED
    BY <1>1, <2>1, <2>3, <2>4, PlanSteps DEF MediaInv
<1>8. QED
  BY <1>4, <1>5, <1>6, <1>7

LEMMA ClearKeepsMedia ==
  ASSUME MediaInv, svd_clear_call
  PROVE  MediaInv'
<1>1. /\ job # << >> /\ call = None /\ Head(job).what = "clear"
      /\ ctx' = NoSdp /\ sip' = "none" /\ rfc2883' = FALSE
      /\ UNCHANGED <<vars, rtp, clean>> /\ StepEnds(TRUE)
  BY DEF svd_clear_call, Step
<1>2. job' = Tail(job) /\ media' = media
  BY <1>1, Ends DEF MediaInv
<1>3. job \in {Cancel2, End3}
  BY <1>1, PlanSteps DEF MediaInv
<1>4. job' \in {<< >>, End4} /\ Doing(Clear)
  BY <1>1, <1>2, <1>3, Lists DEF Doing
<1>5. job' = << >> \/ Head(job') = RingOff
  BY <1>4, Lists
<1>6. /\ ~Doing(JbTune)' /\ ~Doing(WlecOn)' /\ ~Doing(MediaOn)'
      /\ ~Doing(WlecOff)' /\ ~Doing(Clear)' /\ ~Doing(MediaOn)
  BY <1>1, <1>5, Names DEF Doing
<1>7. media # "on"
  BY <1>4 DEF MediaInv, Agreed
<1>8. Agreed' /\ Off'
  BY <1>1, <1>2, <1>6, <1>7 DEF MediaInv, Agreed, Off, vars
<1>9. JobPlan'
  BY <1>1, <1>4 DEF JobPlan
<1>10. Said' /\ ChannelIsRecord'
  BY <1>1 DEF MediaInv, Said, ChannelIsRecord, NoSdp
<1>11. CallOfJob' /\ Coders'
  BY <1>1 DEF MediaInv, CallOfJob, Coders, vars
<1>12. QED
  BY <1>8, <1>9, <1>10, <1>11 DEF MediaInv

\* The calls of libab, of a job or of the phone
LEMMA CallKeepsMedia ==
  ASSUME MediaInv, ChanInv, LibraryCall
  PROVE  MediaInv'
<1>1. UNCHANGED mediaVars /\ call = None
  BY DEF LibraryCall, Request, ab_FXS_line_ring, ab_FXS_line_tone,
     ab_FXS_line_feed, ab_chan_media_switch, Calls
<1>2. PICK req : /\ Request(req)
                 /\ \/ job # << >> /\ req = Head(job)
                    \/ job = << >> /\ req \in LineCall
  <2>1. CASE job # << >> /\ Request(Head(job))
    BY <2>1
  <2>2. CASE job = << >> /\ \E req \in LineCall : Request(req)
    BY <2>2
  <2>3. QED
    BY <2>1, <2>2 DEF LibraryCall
<1>3. /\ call' = req /\ failed' = FALSE /\ UNCHANGED <<status, is_up, hw>>
      /\ req \in LineCall \/ (/\ req \in MediaCall /\ req.to \in BOOLEAN
                             /\ todo' = IF is_up = req.to THEN << >>
                                        ELSE <<Req("enc", req.to), Req("dec", req.to)>>)
  BY <1>2 DEF Request, ab_FXS_line_ring, ab_FXS_line_tone, ab_FXS_line_feed,
     ab_chan_media_switch, Calls, LineCall, MediaCall, Req
<1>4. CallOfJob'
  BY <1>1, <1>2, <1>3 DEF CallOfJob, mediaVars
<1>5. Coders'
  <2>1. CASE req \in LineCall
    <3>1. call' \notin MediaCall /\ call \notin MediaCall
      BY <1>1, <1>3, <2>1, Requests
    <3>2. QED
      BY <1>1, <1>3, <3>1 DEF MediaInv, Coders, mediaVars
  <2>2. CASE req \in MediaCall
    <3>1. req \notin LineCall /\ call \notin MediaCall
      BY <1>1, <2>2, Requests
    <3>2. is_up \in BOOLEAN
      BY DEF ChanInv, TypeOK
    <3>3. todo' # <<Req("dec", call'.to)>>
      BY <1>3, <3>1
    <3>4. todo' = << >> => is_up = call'.to
      BY <1>3, <3>1
    <3>5. QED
      BY <1>1, <1>3, <2>2, <3>1, <3>2, <3>3, <3>4 DEF MediaInv, Coders, mediaVars
  <2>3. QED
    BY <1>3, <2>1, <2>2
<1>6. QED
  BY <1>1, <1>3, <1>4, <1>5 DEF MediaInv, ChannelIsRecord, Said, JobPlan, Agreed,
     RtpAgrees, Off, Doing, mediaVars

LEMMA IoctlKeepsMedia ==
  ASSUME MediaInv, ChanInv, LibraryIoctl
  PROVE  MediaInv'
<1>1. UNCHANGED <<mediaVars, is_up, call>> /\ call # None /\ todo # << >>
  BY DEF LibraryIoctl, IoctlDone, IoctlFails, ChanInv
<1>2. Coders'
  <2>1. CASE call \in LineCall
    <3>1. call \notin MediaCall /\ call' \notin MediaCall
      BY <1>1, <2>1, Requests
    <3>2. hw'.enc = hw.enc /\ hw'.dec = hw.dec
      <4>1. CASE IoctlFails
        BY <4>1 DEF IoctlFails
      <4>2. CASE IoctlDone
        <5>1. Head(todo) \in LineCall
          BY <1>1, <2>1, IoctlOfLineCall
        <5>2. Head(todo).what \in {"ring", "tone", "linefeed"}
          BY <5>1, Requests
        <5>3. hw \in [ring : BOOLEAN, tone : Tone, linefeed : Linefeed,
                      enc : BOOLEAN, dec : BOOLEAN]
          BY DEF ChanInv, TypeOK
        <5>4. hw' = [hw EXCEPT ![Head(todo).what] = Head(todo).to]
          BY <4>2 DEF IoctlDone
        <5>5. QED
          BY <5>2, <5>3, <5>4
      <4>3. QED
        BY <4>1, <4>2 DEF LibraryIoctl
    <3>3. QED
      BY <1>1, <3>1, <3>2 DEF MediaInv, Coders, mediaVars
  <2>2. CASE call \in MediaCall
    <3>1. CASE IoctlFails
      <4>1. failed' = TRUE
        BY <3>1 DEF IoctlFails
      <4>2. QED
        BY <1>1, <2>2, <4>1 DEF Coders
    <3>2. CASE IoctlDone
      <4>1. MediaPlanned
        BY <2>2 DEF ChanInv
      <4>2. /\ hw' = [hw EXCEPT ![Head(todo).what] = Head(todo).to]
            /\ todo' = Tail(todo) /\ failed' = failed
        BY <3>2 DEF IoctlDone
      <4>3. hw \in [ring : BOOLEAN, tone : Tone, linefeed : Linefeed,
                    enc : BOOLEAN, dec : BOOLEAN]
        BY DEF ChanInv, TypeOK
      <4>4. CASE todo = <<Req("dec", call.to)>>
        <5>1. hw'.enc = hw.enc /\ hw'.dec = call.to /\ todo' = << >>
          BY <4>2, <4>3, <4>4 DEF Req
        <5>2. QED
          BY <1>1, <2>2, <4>2, <4>4, <5>1 DEF MediaInv, Coders, mediaVars
      <4>5. CASE todo = <<Req("enc", call.to), Req("dec", call.to)>>
        <5>1. hw'.enc = call.to /\ todo' # << >>
          BY <4>2, <4>3, <4>5 DEF Req
        <5>2. QED
          BY <1>1, <2>2, <5>1 DEF Coders
      <4>6. QED
        BY <1>1, <4>1, <4>4, <4>5 DEF MediaPlanned
    <3>3. QED
      BY <3>1, <3>2 DEF LibraryIoctl
  <2>3. QED
    BY <1>1, <2>1, <2>2 DEF ChanInv, TypeOK
<1>3. QED
  BY <1>1, <1>2 DEF MediaInv, ChannelIsRecord, Said, JobPlan, CallOfJob, Agreed,
     RtpAgrees, Off, Doing, mediaVars

LEMMA ReturnKeepsMedia ==
  ASSUME MediaInv, ChanInv, LibraryReturns
  PROVE  MediaInv'
<1>1. /\ call # None /\ todo = << >> /\ call' = None /\ UNCHANGED <<status, hw, todo>>
      /\ is_up' = IF call \in MediaCall /\ ~failed THEN call.to ELSE is_up
      /\ clean' = IF call \notin MediaCall THEN clean
                  ELSE ~failed /\ (clean \/ is_up # call.to)
      /\ UNCHANGED <<sip, rfc2883, ctx, rtp>>
      /\ IF job = << >> THEN UNCHANGED <<job, media>> ELSE StepEnds(~failed)
  BY DEF LibraryReturns, Returns
<1>2. None \notin MediaCall /\ failed \in BOOLEAN
  BY Requests DEF ChanInv, TypeOK
<1>3. Coders'
  BY <1>1, <1>2 DEF MediaInv, Coders
<1>4. CallOfJob' /\ Said' /\ ChannelIsRecord'
  BY <1>1 DEF MediaInv, CallOfJob, Said, ChannelIsRecord
<1>5. CASE job = << >>
  <2>1. call \notin MediaCall
    BY <1>1, <1>5, Requests DEF MediaInv, CallOfJob
  <2>2. is_up' = is_up /\ UNCHANGED <<job, media>>
    BY <1>1, <1>5, <2>1
  <2>3. QED
    BY <1>1, <1>3, <1>4, <2>2 DEF MediaInv, JobPlan, Agreed, RtpAgrees, Off, Doing
<1>6. CASE job # << >>
  <2>1. call = Head(job) /\ StepEnds(~failed) /\ (~failed) \in BOOLEAN
    BY <1>1, <1>2, <1>6 DEF MediaInv, CallOfJob
  <2>2. \/ call \in MediaCall /\ call.what = "media" /\ call.to \in BOOLEAN
        \/ call \notin MediaCall /\ call.what \in {"ring", "tone", "linefeed"}
    BY <1>1, Requests DEF ChanInv, TypeOK
  <2>3. JobPlan'
    BY <1>1, <1>6, <2>1, <2>2, PlanGoesOn DEF MediaInv, StepEnds
  <2>4. CASE call.what = "media"
    <3>1. is_up' = IF failed THEN is_up ELSE call.to
      BY <1>1, <1>2, <2>2, <2>4
    <3>2. CASE sip = "ready" /\ job = Act6
      <4>1. /\ job' = << >> /\ media' = IF ~failed THEN "on" ELSE "unknown"
            /\ Doing(MediaOn)
        BY <1>6, <2>1, <3>2, Ends, Lists DEF MediaInv, Doing
      <4>2. RtpAgrees /\ rtp.wlec
        BY <4>1 DEF MediaInv, Agreed
      <4>3. Agreed' /\ Off'
        BY <1>1, <3>2, <4>1, <4>2 DEF Agreed, Off, RtpAgrees, Doing
      <4>4. QED
        BY <1>3, <1>4, <2>3, <4>3 DEF MediaInv
    <3>3. CASE sip = "ended" /\ job = End1
      <4>1. /\ job' = IF ~failed THEN End2 ELSE End3
            /\ media' = IF ~failed THEN media ELSE "unknown"
            /\ Head(job) = MediaOff
        BY <1>6, <2>1, <3>3, Ends, Lists DEF MediaInv
      <4>2. call.to = FALSE
        BY <2>1, <4>1, Names
      <4>3. Head(job') = IF ~failed THEN WlecOff ELSE Clear
        BY <4>1, Lists
      <4>4. /\ ~Doing(JbTune)' /\ ~Doing(WlecOn)' /\ ~Doing(MediaOn)'
            /\ Doing(Clear)' => failed
            /\ Doing(WlecOff)' => ~failed
            /\ ~Doing(MediaOn)
        BY <4>1, <4>3, Names DEF Doing
      <4>5. Agreed' /\ Off'
        BY <1>1, <3>1, <3>3, <4>1, <4>2, <4>4 DEF MediaInv, Agreed, Off, RtpAgrees
      <4>6. QED
        BY <1>3, <1>4, <2>3, <4>5 DEF MediaInv
    <3>4. JobPlan /\ Head(job).what = "media"
      BY <2>1, <2>4 DEF MediaInv
    <3>5. (sip = "ready" /\ job = Act6) \/ (sip = "ended" /\ job = End1)
      BY <1>6, <3>4, PlanSteps
    <3>6. QED
      BY <3>2, <3>3, <3>5
  <2>5. CASE call.what \in {"ring", "tone", "linefeed"}
    <3>1. is_up' = is_up
      BY <1>1, <2>2, <2>5
    <3>2. Head(job).what \in {"ring", "tone"}
      BY <1>6, <2>1, <2>5, Kinds DEF MediaInv, JobPlan
    <3>3. job' = Tail(job) /\ media' = media
      BY <1>6, <2>1, <3>2, Ends DEF MediaInv
    <3>4. job' \in {<< >>, Act2, End5, Cancel2}
      <4>1. job \in {Act1, End4, End5, Ring, Cancel1}
        <5>1. JobPlan /\ job # << >>
          BY <1>6 DEF MediaInv
        <5>2. job \notin {Act2, Act3, Act4, Act5, Act6}
          BY <3>2, Kinds
        <5>3. job \notin {End1, End2, End3, Cancel2}
          BY <3>2, Kinds
        <5>4. QED
          BY <5>1, <5>2, <5>3 DEF JobPlan
      <4>2. Tail(job) \in {<< >>, Act2, End5, Cancel2}
        BY <4>1, Lists
      <4>3. QED
        BY <3>3, <4>2
    <3>5. /\ ~Doing(JbTune)' /\ ~Doing(WlecOn)' /\ ~Doing(MediaOn)'
          /\ ~Doing(WlecOff)' /\ ~Doing(MediaOn)
      <4>1. job' = << >> \/ Head(job').what \in {"prepare", "tone", "clear"}
        BY <3>4, Kinds
      <4>2. QED
        BY <3>2, <4>1, Names DEF Doing
    <3>6. Doing(Clear)' => sip' \notin {"ready", "ended"}
      <4>1. SUFFICES ASSUME Doing(Clear)'
                     PROVE  sip' \notin {"ready", "ended"}
        OBVIOUS
      <4>2. job' # << >> /\ Head(job').what = "clear"
        BY <4>1, Names DEF Doing
      <4>3. job' = Cancel2 /\ job' # End3
        BY <3>4, <4>2, Kinds, Lists
      <4>4. QED
        BY <2>3, <4>2, <4>3, Kinds DEF JobPlan
    <3>7. Agreed' /\ Off'
      BY <1>1, <3>1, <3>3, <3>5, <3>6 DEF MediaInv, Agreed, Off, RtpAgrees
    <3>8. QED
      BY <1>3, <1>4, <2>3, <3>7 DEF MediaInv
  <2>6. QED
    BY <2>2, <2>4, <2>5
<1>7. QED
  BY <1>5, <1>6

LEMMA MediaInvariant == MediaSpec => []MediaInv
<1>1. MediaInv /\ ChanInv /\ [MediaNext]_<<vars, mediaVars>> => MediaInv'
  <2>1. SUFFICES ASSUME MediaInv, ChanInv, [MediaNext]_<<vars, mediaVars>>
                 PROVE  MediaInv'
    OBVIOUS
  <2>2. CASE Handler
    BY <2>1, <2>2, HandlerKeepsMedia
  <2>3. CASE JobStep
    BY <2>1, <2>3, StepKeepsMedia, ClearKeepsMedia, CallKeepsMedia,
       IoctlKeepsMedia, ReturnKeepsMedia DEF JobStep
  <2>4. CASE UNCHANGED <<vars, mediaVars>>
    BY <2>1, <2>4, StutterKeepsMedia
  <2>5. QED
    BY <2>1, <2>2, <2>3, <2>4 DEF MediaNext
<1>2. QED
  BY <1>1, InitMedia, MediaIsChan, ChanInvariant, PTL DEF MediaSpec

-----------------------------------------------------------------------------
\* After an activation that returned 0 the hardware codes as the last
\* description says, for any codecs, descriptions and failures before it.
THEOREM CodesAsAgreed == MediaSpec => []AgreedCoder
<1>1. MediaInv => AgreedCoder
  BY DEF MediaInv, Agreed, RtpAgrees, AgreedCoder
<1>2. QED
  BY <1>1, MediaInvariant, PTL

\* No payload type of events and no address of one call is there for the next.
THEOREM NothingIsLeft == MediaSpec => []OnlyWhatWasSaid
<1>1. MediaInv => OnlyWhatWasSaid
  BY DEF MediaInv, Said, OnlyWhatWasSaid, Forwards
<1>2. QED
  BY <1>1, MediaInvariant, PTL

\* After a deactivation that returned 0 the coders are off, if no switch of the
\* media has failed since the last one that succeeded (clean).  Without that the
\* statement is false: a half failed start leaves a coder on and is_up at 0.
THEOREM CodersAreOff == MediaSpec => []MediaOffAfterCall
<1>1. MediaInv => MediaOffAfterCall
  <2>1. SUFFICES ASSUME MediaInv, Idle, media = "off", clean
                 PROVE  ~hw.enc /\ ~hw.dec /\ ~rtp.wlec
    BY DEF MediaOffAfterCall
  <2>2. call \notin MediaCall
    BY <2>1, Requests DEF Idle
  <2>3. hw.enc = is_up /\ hw.dec = is_up
    BY <2>1, <2>2 DEF MediaInv, Coders
  <2>4. ~is_up /\ ~rtp.wlec
    BY <2>1 DEF MediaInv, Off, Doing, Idle
  <2>5. QED
    BY <2>3, <2>4
<1>2. QED
  BY <1>1, MediaInvariant, PTL
=============================================================================
