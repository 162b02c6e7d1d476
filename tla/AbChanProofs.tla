---------------------------- MODULE AbChanProofs ----------------------------
(***************************************************************************)
(* The channel of libab keeps its promises for any sequence of calls and   *)
(* failures.  The argument: the cache agrees with the hardware after every *)
(* ioctl (CacheIsTrue), and while a line function runs the ioctls that it  *)
(* has left lead from there to what it was asked (Planned).                *)
(***************************************************************************)
EXTENDS AbChan, TLAPS

\* What the cache says of the line is what the hardware does.
CacheIsTrue ==
  hw.ring = status.ring /\ hw.tone = status.tone
    /\ hw.linefeed = status.linefeed

\* The step that the driver is asked for is one that FxsLine allows.
Legal(io) ==
  \/ io.what = "ring" /\ io.to \in BOOLEAN /\ hw.ring # io.to
  \/ /\ io.what = "tone" /\ io.to \in Tone /\ hw.tone # io.to
     /\ hw.tone = "MUTE" \/ io.to = "MUTE"
  \/ /\ io.what = "linefeed" /\ io.to \in Linefeed /\ hw.linefeed # io.to
     /\ hw.linefeed = "DISABLED" => io.to = "STANDBY"

Planned ==
  \/ todo = << >> /\ (failed \/ hw[call.what] = call.to)
  \/ todo = <<call>> /\ Legal(call)
  \/ /\ todo = <<Req("tone", "MUTE"), call>>
     /\ call.what = "tone" /\ call.to # "MUTE" /\ hw.tone # "MUTE"
  \/ /\ todo = <<Req("linefeed", "STANDBY"), call>>
     /\ call = Req("linefeed", "ACTIVE") /\ hw.linefeed = "DISABLED"

MediaPlanned ==
  \/ todo = << >>
  \/ todo = <<Req("dec", call.to)>>
  \/ todo = <<Req("enc", call.to), Req("dec", call.to)>>

ChanInv ==
  /\ TypeOK
  /\ CacheIsTrue
  /\ call = None => todo = << >>
  /\ call \in LineCall => Planned
  /\ call \in MediaCall => MediaPlanned

LEMMA Requests ==
  /\ \A r \in LineCall : /\ r.what \in {"ring", "tone", "linefeed"}
                         /\ r = Req(r.what, r.to)
                         /\ r.what = "ring" => r.to \in BOOLEAN
                         /\ r.what = "tone" => r.to \in Tone
                         /\ r.what = "linefeed" => r.to \in Linefeed
  /\ \A r \in MediaCall : r.what = "media" /\ r.to \in BOOLEAN
  /\ None \notin LineCall /\ None \notin MediaCall
  /\ LineCall \cap MediaCall = {}
<1>1. \A r \in LineCall : /\ r.what \in {"ring", "tone", "linefeed"}
                          /\ r = Req(r.what, r.to)
                          /\ r.what = "ring" => r.to \in BOOLEAN
                          /\ r.what = "tone" => r.to \in Tone
                          /\ r.what = "linefeed" => r.to \in Linefeed
  BY DEF LineCall, Req
<1>2. \A r \in MediaCall : r.what = "media" /\ r.to \in BOOLEAN
  BY DEF MediaCall, Req
<1>3. QED
  BY <1>1, <1>2, AbChanAssumption

LEMMA ShortQueues ==
  ASSUME NEW S, NEW x \in S, NEW y \in S
  PROVE  << >> \in Seq(S) /\ <<x>> \in Seq(S) /\ <<x, y>> \in Seq(S)
OBVIOUS

\* A new call plans its ioctls from what the cache says.
LEMMA CallKeepsInv ==
  ASSUME ChanInv,
         \/ \E r \in BOOLEAN : ab_FXS_line_ring(r)
         \/ \E t \in Tone : ab_FXS_line_tone(t)
         \/ \E f \in Linefeed : ab_FXS_line_feed(f)
         \/ \E up \in BOOLEAN : ab_chan_media_switch(up)
  PROVE  ChanInv'
<1>1. CASE \E r \in BOOLEAN : ab_FXS_line_ring(r)
  <2>1. PICK r \in BOOLEAN : ab_FXS_line_ring(r)
    BY <1>1
  <2>2. /\ call' = Req("ring", r) /\ call' \in LineCall /\ failed' = FALSE
        /\ UNCHANGED <<status, is_up, hw>>
        /\ call'.what = "ring" /\ call'.to = r
    BY <2>1 DEF ab_FXS_line_ring, Calls, LineCall, Req
  <2>3. todo' = IF status.ring # r THEN <<call'>> ELSE << >>
    BY <2>1, <2>2 DEF ab_FXS_line_ring, Calls
  <2>4. todo' \in Seq(Ioctl)
    <3>1. call' \in Ioctl
      BY <2>2 DEF Ioctl
    <3>2. QED
      BY <2>3, <3>1, ShortQueues
  <2>5. Planned'
    BY <2>2, <2>3 DEF Planned, Legal, ChanInv, CacheIsTrue
  <2>6. call' # None /\ call' \notin MediaCall
    BY <2>2, Requests
  <2>7. TypeOK'
    BY <2>2, <2>4 DEF ChanInv, TypeOK
  <2>8. QED
    BY <2>2, <2>5, <2>6, <2>7 DEF ChanInv, CacheIsTrue
<1>2. CASE \E t \in Tone : ab_FXS_line_tone(t)
  <2>1. PICK t \in Tone : ab_FXS_line_tone(t)
    BY <1>2
  <2>2. /\ call' = Req("tone", t) /\ call' \in LineCall /\ failed' = FALSE
        /\ UNCHANGED <<status, is_up, hw>>
        /\ call'.what = "tone" /\ call'.to = t
    BY <2>1 DEF ab_FXS_line_tone, Calls, LineCall, Req
  <2>3. todo' = ToneIoctls(t)
    BY <2>1 DEF ab_FXS_line_tone, Calls
  <2>4. Req("tone", "MUTE") \in Ioctl
    BY DEF Ioctl, LineCall, Tone
  <2>5. todo' \in Seq(Ioctl)
    <3>1. call' \in Ioctl
      BY <2>2 DEF Ioctl
    <3>2. QED
      BY <2>2, <2>3, <2>4, <3>1, ShortQueues DEF ToneIoctls
  <2>6. Planned'
    BY <2>2, <2>3 DEF Planned, Legal, ChanInv, CacheIsTrue, ToneIoctls
  <2>7. call' # None /\ call' \notin MediaCall
    BY <2>2, Requests
  <2>8. TypeOK'
    BY <2>2, <2>5 DEF ChanInv, TypeOK
  <2>9. QED
    BY <2>2, <2>6, <2>7, <2>8 DEF ChanInv, CacheIsTrue
<1>3. CASE \E f \in Linefeed : ab_FXS_line_feed(f)
  <2>1. PICK f \in Linefeed : ab_FXS_line_feed(f)
    BY <1>3
  <2>2. /\ call' = Req("linefeed", f) /\ call' \in LineCall /\ failed' = FALSE
        /\ UNCHANGED <<status, is_up, hw>>
        /\ call'.what = "linefeed" /\ call'.to = f
    BY <2>1 DEF ab_FXS_line_feed, Calls, LineCall, Req
  <2>3. todo' = FeedIoctls(f)
    BY <2>1 DEF ab_FXS_line_feed, Calls
  <2>4. Req("linefeed", "STANDBY") \in Ioctl
    BY DEF Ioctl, LineCall, Linefeed
  <2>5. todo' \in Seq(Ioctl)
    <3>1. call' \in Ioctl
      BY <2>2 DEF Ioctl
    <3>2. QED
      BY <2>2, <2>3, <2>4, <3>1, ShortQueues DEF FeedIoctls
  <2>6. Planned'
    BY <2>2, <2>3
       DEF Planned, Legal, ChanInv, CacheIsTrue, FeedIoctls, Linefeed
  <2>7. call' # None /\ call' \notin MediaCall
    BY <2>2, Requests
  <2>8. TypeOK'
    BY <2>2, <2>5 DEF ChanInv, TypeOK
  <2>9. QED
    BY <2>2, <2>6, <2>7, <2>8 DEF ChanInv, CacheIsTrue
<1>4. CASE \E up \in BOOLEAN : ab_chan_media_switch(up)
  <2>1. PICK up \in BOOLEAN : ab_chan_media_switch(up)
    BY <1>4
  <2>2. /\ call' = Req("media", up) /\ call' \in MediaCall /\ failed' = FALSE
        /\ UNCHANGED <<status, is_up, hw>>
        /\ call'.to = up
    BY <2>1 DEF ab_chan_media_switch, Calls, MediaCall, Req
  <2>3. todo' = IF is_up = up THEN << >> ELSE <<Req("enc", up), Req("dec", up)>>
    BY <2>1 DEF ab_chan_media_switch, Calls
  <2>4. todo' \in Seq(Ioctl)
    <3>1. Req("enc", up) \in Ioctl /\ Req("dec", up) \in Ioctl
      BY DEF Ioctl
    <3>2. QED
      BY <2>3, <3>1, ShortQueues
  <2>5. MediaPlanned'
    BY <2>2, <2>3 DEF MediaPlanned
  <2>6. call' # None /\ call' \notin LineCall
    BY <2>2, Requests
  <2>7. TypeOK'
    BY <2>2, <2>4 DEF ChanInv, TypeOK
  <2>8. QED
    BY <2>2, <2>5, <2>6, <2>7 DEF ChanInv, CacheIsTrue
<1>5. QED
  BY <1>1, <1>2, <1>3, <1>4

\* An ioctl that is done moves the line and the cache together.
LEMMA IoctlOfLineCall ==
  ASSUME ChanInv, call \in LineCall, todo # << >>
  PROVE  /\ Head(todo) \in LineCall
         /\ Legal(Head(todo))
         /\ todo = <<call>> \/ Tail(todo) = <<call>>
<1>1. Planned
  BY DEF ChanInv
<1>2. CASE todo = <<call>>
  BY <1>1, <1>2 DEF Planned, Req
<1>3. CASE /\ todo = <<Req("tone", "MUTE"), call>>
           /\ call.what = "tone" /\ call.to # "MUTE" /\ hw.tone # "MUTE"
  <2>1. Head(todo) = Req("tone", "MUTE") /\ Tail(todo) = <<call>>
    BY <1>3
  <2>2. QED
    BY <1>3, <2>1 DEF Legal, LineCall, Tone, Req
<1>4. CASE /\ todo = <<Req("linefeed", "STANDBY"), call>>
           /\ call = Req("linefeed", "ACTIVE") /\ hw.linefeed = "DISABLED"
  <2>1. Head(todo) = Req("linefeed", "STANDBY") /\ Tail(todo) = <<call>>
    BY <1>4
  <2>2. QED
    BY <1>4, <2>1 DEF Legal, LineCall, Linefeed, Req
<1>5. QED
  BY <1>1, <1>2, <1>3, <1>4 DEF Planned

\* What a legal ioctl leaves to do is planned from where it leads.
LEMMA DoneOnLine ==
  ASSUME ChanInv, IoctlDone, call \in LineCall
  PROVE  CacheIsTrue' /\ Planned' /\ Head(todo) \in LineCall
<1>1. /\ Head(todo) \in LineCall /\ Legal(Head(todo))
      /\ todo = <<call>> \/ Tail(todo) = <<call>>
  BY IoctlOfLineCall DEF IoctlDone
<1>2. PICK io \in LineCall :
        /\ io = Head(todo) /\ Legal(io)
        /\ hw' = [hw EXCEPT ![io.what] = io.to]
        /\ status' = [status EXCEPT ![io.what] = io.to]
        /\ todo' = Tail(todo)
        /\ UNCHANGED <<call, failed>>
  BY <1>1 DEF IoctlDone
<1>3. io.what \in {"ring", "tone", "linefeed"}
  BY <1>2, Requests
<1>4. /\ hw \in [ring : BOOLEAN, tone : Tone, linefeed : Linefeed,
                 enc : BOOLEAN, dec : BOOLEAN]
      /\ status \in [ring : BOOLEAN, tone : Tone, linefeed : Linefeed]
      /\ CacheIsTrue
  BY DEF ChanInv, TypeOK
<1>5. hw'[io.what] = io.to
  BY <1>2, <1>3, <1>4
<1>6. CacheIsTrue'
  BY <1>2, <1>3, <1>4 DEF CacheIsTrue
<1>7. Planned'
  <2>1. CASE todo = <<call>>
    <3>1. todo' = << >> /\ io = call
      BY <1>2, <2>1
    <3>2. QED
      BY <1>2, <1>5, <3>1 DEF Planned
  <2>2. CASE /\ todo = <<Req("tone", "MUTE"), call>>
             /\ call.what = "tone" /\ call.to # "MUTE" /\ hw.tone # "MUTE"
    <3>1. io = Req("tone", "MUTE") /\ todo' = <<call>>
      BY <1>2, <2>2
    <3>2. hw'.tone = "MUTE"
      BY <1>2, <1>4, <3>1 DEF Req
    <3>3. call.to \in Tone
      BY <2>2, Requests
    <3>4. QED
      BY <1>2, <2>2, <3>1, <3>2, <3>3 DEF Planned, Legal
  <2>3. CASE /\ todo = <<Req("linefeed", "STANDBY"), call>>
             /\ call = Req("linefeed", "ACTIVE") /\ hw.linefeed = "DISABLED"
    <3>1. io = Req("linefeed", "STANDBY") /\ todo' = <<call>>
      BY <1>2, <2>3
    <3>2. hw'.linefeed = "STANDBY"
      BY <1>2, <1>4, <3>1 DEF Req
    <3>3. QED
      BY <1>2, <2>3, <3>1, <3>2 DEF Planned, Legal, Linefeed, Req
  <2>4. QED
    BY <2>1, <2>2, <2>3 DEF ChanInv, Planned, IoctlDone
<1>8. QED
  BY <1>1, <1>6, <1>7

LEMMA MediaGoesOn ==
  ASSUME ChanInv, call \in MediaCall, todo # << >>
  PROVE  \/ Tail(todo) = << >>
         \/ Tail(todo) = <<Req("dec", call.to)>>
<1>1. MediaPlanned
  BY DEF ChanInv
<1>2. CASE todo = <<Req("dec", call.to)>>
  BY <1>2
<1>3. CASE todo = <<Req("enc", call.to), Req("dec", call.to)>>
  BY <1>3
<1>4. QED
  BY <1>1, <1>2, <1>3 DEF MediaPlanned

LEMMA DoneKeepsInv ==
  ASSUME ChanInv, IoctlDone
  PROVE  ChanInv'
<1>1. todo \in Seq(Ioctl) /\ Head(todo) \in Ioctl /\ todo' \in Seq(Ioctl)
  BY DEF ChanInv, TypeOK, IoctlDone
<1>2. call \in LineCall \union MediaCall
  BY DEF ChanInv, TypeOK, IoctlDone
<1>3. CASE call \in LineCall
  <2>1. CacheIsTrue' /\ Planned' /\ Head(todo) \in LineCall
    BY <1>3, DoneOnLine
  <2>2. TypeOK'
    BY <1>1, <2>1, Requests DEF ChanInv, TypeOK, IoctlDone
  <2>3. call' = call /\ call \notin MediaCall /\ call # None
    BY <1>3, Requests DEF IoctlDone
  <2>4. QED
    BY <2>1, <2>2, <2>3 DEF ChanInv
<1>4. CASE call \in MediaCall
  <2>1. PICK what \in {"enc", "dec"} : Head(todo) = Req(what, call.to)
    BY <1>4 DEF ChanInv, MediaPlanned, IoctlDone
  <2>2. call.to \in BOOLEAN
    BY <1>4, Requests
  <2>3. Head(todo).what = what /\ Head(todo).to = call.to
    BY <2>1 DEF Req
  <2>4. Head(todo) \notin LineCall
    BY <2>3, Requests
  <2>5. hw' = [hw EXCEPT ![what] = call.to] /\ status' = status
    BY <2>3, <2>4 DEF IoctlDone
  <2>6. TypeOK'
    BY <1>1, <2>2, <2>5 DEF ChanInv, TypeOK, IoctlDone
  <2>7. CacheIsTrue'
    BY <2>5 DEF ChanInv, TypeOK, CacheIsTrue
  <2>8. MediaPlanned' /\ call' = call
    BY <1>4, MediaGoesOn DEF MediaPlanned, IoctlDone
  <2>9. call \notin LineCall /\ call # None
    BY <1>4, Requests
  <2>10. QED
    BY <2>6, <2>7, <2>8, <2>9 DEF ChanInv
<1>5. QED
  BY <1>2, <1>3, <1>4

LEMMA FailureKeepsInv ==
  ASSUME ChanInv, IoctlFails
  PROVE  ChanInv'
<1>1. UNCHANGED <<status, is_up, hw, call>> /\ failed' = TRUE
  BY DEF IoctlFails, StatusOfFailed
<1>2. todo' = IF call \in MediaCall THEN Tail(todo) ELSE << >>
  BY DEF IoctlFails
<1>3. todo \in Seq(Ioctl) /\ todo # << >> /\ call # None
  BY DEF ChanInv, TypeOK, IoctlFails
<1>4. todo' \in Seq(Ioctl)
  BY <1>2, <1>3
<1>5. TypeOK' /\ CacheIsTrue'
  BY <1>1, <1>4 DEF ChanInv, TypeOK, CacheIsTrue
<1>6. call \in LineCall => Planned'
  BY <1>1, <1>2, Requests DEF Planned
<1>7. call \in MediaCall => MediaPlanned'
  BY <1>1, <1>2, <1>3, MediaGoesOn DEF MediaPlanned
<1>8. QED
  BY <1>1, <1>3, <1>5, <1>6, <1>7 DEF ChanInv

LEMMA ReturnKeepsInv ==
  ASSUME ChanInv, Returns
  PROVE  ChanInv'
<1>1. call \in MediaCall => call.to \in BOOLEAN
  BY Requests
<1>2. is_up' \in BOOLEAN
  BY <1>1 DEF ChanInv, TypeOK, Returns
<1>3. QED
  BY <1>2, Requests DEF ChanInv, TypeOK, CacheIsTrue, Returns

\* ChanInv is inductive.
LEMMA ChanInvariant == Spec => []ChanInv
<1>1. Init => ChanInv
  <2>1. ASSUME Init
        PROVE  TypeOK
    <3>1. << >> \in Seq(Ioctl)
      OBVIOUS
    <3>2. "MUTE" \in Tone /\ "STANDBY" \in Linefeed
      BY DEF Tone, Linefeed
    <3>3. status \in [ring : BOOLEAN, tone : Tone, linefeed : Linefeed]
      BY <2>1, <3>2 DEF Init
    <3>4. hw \in [ring : BOOLEAN, tone : Tone, linefeed : Linefeed,
                  enc : BOOLEAN, dec : BOOLEAN]
      BY <2>1, <3>2 DEF Init
    <3>5. is_up \in BOOLEAN /\ failed \in BOOLEAN
      BY <2>1 DEF Init
    <3>6. QED
      BY <2>1, <3>1, <3>3, <3>4, <3>5 DEF Init, TypeOK
  <2>2. Init => CacheIsTrue /\ todo = << >> /\ call = None
    BY DEF Init, CacheIsTrue
  <2>3. QED
    BY <2>1, <2>2, Requests DEF ChanInv
<1>2. ChanInv /\ [Next]_vars => ChanInv'
  <2>1. SUFFICES ASSUME ChanInv, [Next]_vars
                 PROVE  ChanInv'
    OBVIOUS
  <2>2. CASE IoctlDone
    BY <2>1, <2>2, DoneKeepsInv
  <2>3. CASE IoctlFails
    BY <2>1, <2>3, FailureKeepsInv
  <2>4. CASE Returns
    BY <2>1, <2>4, ReturnKeepsInv
  <2>5. CASE UNCHANGED vars
    BY <2>1, <2>5 DEF vars, ChanInv, TypeOK, CacheIsTrue, Planned, Legal,
       MediaPlanned
  <2>6. QED
    BY <2>1, <2>2, <2>3, <2>4, <2>5, CallKeepsInv DEF Next
<1>3. QED
  BY <1>1, <1>2, PTL DEF Spec

-----------------------------------------------------------------------------
\* The cache, the hardware and the ioctls that are left keep their types.
THEOREM TypeCorrect == Spec => []TypeOK
<1>1. ChanInv => TypeOK
  BY DEF ChanInv
<1>2. QED
  BY <1>1, ChanInvariant, PTL

\* ab_FXS_line_ring, ab_FXS_line_tone and ab_FXS_line_feed return 0 only when
\* the line is as asked, whatever failed before.
THEOREM ZeroMeansDone == Spec => []LineCallSucceeds
<1>1. ChanInv => LineCallSucceeds
  <2>1. SUFFICES ASSUME ChanInv, call \in LineCall, todo = << >>, ~failed
                 PROVE  hw[call.what] = call.to
    BY DEF LineCallSucceeds
  <2>2. Planned
    BY <2>1 DEF ChanInv
  <2>3. QED
    BY <2>1, <2>2 DEF Planned
<1>2. QED
  BY <1>1, ChanInvariant, PTL

\* The channel of libab implements FxsLine: no interleaving of calls and
\* failures makes the line take a step that FxsLine does not allow.
THEOREM ImplementsLine == Spec => LineIsKept
<1>1. Init => Line!Init
  BY DEF Init, Line!Init
<1>2. ChanInv /\ [Next]_vars => [Line!Next]_(Line!lineVars)
  <2>1. SUFFICES ASSUME ChanInv, [Next]_vars
                 PROVE  [Line!Next]_(Line!lineVars)
    OBVIOUS
  <2>2. CASE IoctlDone
    <3>1. hw \in [ring : BOOLEAN, tone : Tone, linefeed : Linefeed,
                  enc : BOOLEAN, dec : BOOLEAN]
      BY <2>1 DEF ChanInv, TypeOK
    <3>2. hw' = [hw EXCEPT ![Head(todo).what] = Head(todo).to]
      BY <2>2 DEF IoctlDone
    <3>3. CASE call \in LineCall
      <4>1. PICK io : io = Head(todo) /\ Legal(io)
        BY <2>1, <2>2, <3>3, IoctlOfLineCall DEF IoctlDone
      <4>2. CASE io.what = "ring"
        BY <3>1, <3>2, <4>1, <4>2
           DEF Legal, Line!Next, Line!Ring, Line!lineVars
      <4>3. CASE io.what = "tone"
        BY <3>1, <3>2, <4>1, <4>3
           DEF Legal, Line!Next, Line!StartTone, Line!StopTone, Line!lineVars,
               Tone, Line!Tone
      <4>4. CASE io.what = "linefeed"
        BY <3>1, <3>2, <4>1, <4>4
           DEF Legal, Line!Next, Line!Feed, Line!lineVars, Linefeed,
               Line!Linefeed
      <4>5. QED
        BY <4>1, <4>2, <4>3, <4>4 DEF Legal
    <3>4. CASE call \in MediaCall
      <4>1. Head(todo).what \in {"enc", "dec"}
        BY <2>1, <2>2, <3>4 DEF ChanInv, MediaPlanned, IoctlDone, Req
      <4>2. QED
        BY <3>1, <3>2, <4>1 DEF Line!lineVars
    <3>5. QED
      BY <2>1, <2>2, <3>3, <3>4 DEF ChanInv, TypeOK, IoctlDone
  <2>3. CASE ~IoctlDone
    <3>1. hw' = hw
      BY <2>1, <2>3 DEF Next, vars, ab_FXS_line_ring, ab_FXS_line_tone,
         ab_FXS_line_feed, ab_chan_media_switch, Calls, IoctlFails, Returns
    <3>2. QED
      BY <3>1 DEF Line!lineVars
  <2>4. QED
    BY <2>2, <2>3
<1>3. QED
  BY <1>1, <1>2, ChanInvariant, PTL DEF Spec, LineIsKept, Line!Spec
=============================================================================
