# A formal model of svd, the SIP client of danube-voip

`svd` connects the two FXS telephone ports of an Infineon Danube router to SIP
accounts. It is a single thread: `su_root_run` of sofia-sip calls one handler at
a time for hook and keypad events of the phones (through `libab`), for SIP
events of the `nua` stack, for timers, RTP sockets and a control socket. The
difficulty is not parallelism inside the program but what happens *between* two
handlers: the people at the phones, the SIP peers and the stack go on, events
wait in a queue, and every handler finds a state that others have moved.

This directory has TLA+ models of that program, TLC configurations that check
them on small instances and TLAPS proofs for instances of any size.
Paths are those of the repository (`src/svd/svd/src/` and `src/libab/libab/`
unless the path says otherwise).

Contents: [Inventory](#inventory), [Modules](#modules), [Runs](#runs),
[Disagreements found](#disagreements-found), [Proofs](#proofs),
[What is not modelled](#what-is-not-modelled), [Plan](#plan).

## Inventory

| Component | Source | State | Operations | What makes it correct |
|---|---|---|---|---|
| Channels (phones) | `svd_atab.c`, `svd.h` | `svd_chan_s` per port: `off_hook`, `op_handle`, `account`, `call_established`, digits, dial timer, peer RTP address | off hook, on hook, digit, `#`, dial timer, `svd_clear_call` | one phone answers a call; a hung up phone ends its call and becomes free; the dial timer never hits a call; nothing of a call survives it |
| SIP calls | `svd_ua.c` | none of its own: it writes the channels | `svd_i_invite`, `svd_i_cancel`, `svd_i_state`, `svd_i_prack`, `svd_r_invite`, `svd_invite_to`, `svd_answer`, `svd_bye` | events find their channel or are harmless; the end of a call is noticed; no destroyed handle is kept |
| SIP stack | sofia-sip (external) | a session per `nua_handle_t`, a queue of events | commands of the program, moves of the peer | (assumed) |
| Registration | `svd_ua.c` | per account `registered`, `op_reg`, `reg_tmr`; VOIP LED | `svd_refresh_registration`, `svd_register`, `svd_r_register`, `svd_authenticate`, `reg_timer_cb` | the flag and the LED agree with the registrar; no account is given up; no second handle |
| Shutdown | `svd.c`, `svd_ua.c` | `svd->nua`, the main loop | `term_handler`, `svd_shutdown`, `svd_r_shutdown` | the loop ends, and not before the stack is closed |
| Choice of account | `svd_ua.c` | loop variables; reads accounts and dial plan | `svd_invite_to` | the dial plan decides, then the priority; never an unusable account |
| Line driver | `ab_line.c`, `ab_media.c` | cached ring, tone, feed and `is_up`; the hardware | `ab_FXS_line_ring/tone/feed`, `ab_chan_media_switch` | a call that returns 0 did it; the cache is true after failures |
| Start and end | `svd.c`, `svd_atab.c`, `ab_basic.c`, `svd_engine_if.c` | what has been created so far | `main`, `svd_create`, `svd_destroy`, `ab_create`, `ab_destroy` | every failure releases what was acquired, once |
| Configuration | `svd_cfg.c` | `g_conf` | `uci_config_load` and the `*_add` callbacks | references between sections resolve; bounds on channels and codecs |
| Control socket | `svd_server_if.c`, `svd_engine_if.c` | reply buffer | `svd_if_handler`, `svd_exec_*` | a reply to every datagram, lists well formed |
| Media | `svd_atab.c`, `ab_media.c` | RTP socket, payload, peer address | open, forward both ways, activate, deactivate | packets only in a call and only to its peer; the codec agreed on |
| LEDs | `svd_led.c` | sysfs files | on, off, blink | the meanings listed at `svd_led.c:3-14` |
| Web interface, `svd_if`, packaging, `po2lmo` | `src/luci-app-svd`, `svd_if.c`, ... | none | forms, one datagram, build | not modelled |

Interactions. `svd_atab_handler` and `svd_nua_callback` share the channel
contexts and are the two halves of `SvdCalls`; both command the stack
(`nua_invite`, `nua_respond`, `nua_bye`, `nua_handle_destroy`), which answers
later through the queue of events (`NuaStack`). Both drive the line through
`libab` (`AbChan`), which keeps a cache of what it told the hardware.
`svd_invite_to` reads `registered`, which `SvdRegistration` maintains, and the
vectors that `svd_cfg.c` has filled, to choose an account (`SvdDialOut`).
`svd_i_state` activates and deactivates the media through `libab`, step by step
(`SvdMedia`). `svd_shutdown`, called by the control socket (`SvdInterface`), by a
signal or by the unwinding of a failed start, ends all of it (`SvdLifecycle`).

Hard behaviours, with their lines, are the `hazards` of `PROJECT.json`. The
recurring ones: one SIP handle shared by all phones that ring for a call, while
most loops handle only the first of them; events on their way when a local
action (hang up, answer, timer) makes them stale; provisional, repeated and
late answers of registrars; a cache of hardware state when an ioctl fails; the
unwinding of a start that fails half-way.

## Modules

| Module | Models | Composition |
|---|---|---|
| `NuaStack` | the stack, external: INVITE sessions, event queue, peer | extended by `SvdCalls` |
| `SvdCalls` | phones, dial timer and SIP events on the channel contexts | extends `NuaStack`; instantiated by `MCSvdCalls` |
| `SvdRegistration` | accounts, retry timers, VOIP LED, shutdown of the stack | instantiated by `MCSvdRegistration` |
| `FxsLine` | abstract: what a caller may rely on of a line | |
| `AbChan` | `libab` on one channel, ioctl by ioctl, for any caller | implements `FxsLine` |
| `SvdMedia` | session descriptions and media of a channel: the handlers as callers of `libab` | extends `AbChan`; instantiated by `MCSvdMedia` |
| `SvdConfig` | loading the UCI file, section by section | extended by `SvdDialOut` |
| `SvdInviteTo` | the two loops of `svd_invite_to` over any two vectors | instantiated by `SvdDialOut` |
| `SvdDialOut` | the file is loaded, then numbers are dialled | composes `SvdConfig` and `SvdInviteTo`; instantiated by `MCSvdInviteTo` |
| `SvdInterface` | one command of the control socket and its answer | extended by `SvdLifecycle` |
| `SvdLifecycle` | `main` from start to end, each step failing | extends `SvdInterface`; instantiated by `MCSvdLifecycle` |
| `SvdCallsProofs`, `SvdHandlesProofs`, `SvdRegistrationProofs`, `AbChanProofs`, `SvdMediaProofs`, `SvdInviteToProofs`, `SvdDialOutProofs`, `SvdLifecycleProofs` | theorems | extend their module and `TLAPS` |

### NuaStack

`stack[h]` is the state of the session of handle `h`, named after
`nua_callstate_t`, with "free" before the handle exists and "destroyed" after
`nua_handle_destroy`. `events` is the one FIFO towards `svd_nua_callback`.
A command of the program is an operator that gives the new `stack`, and it does
nothing when the session has moved past it, which is how sofia-sip treats a
`nua_respond` or `nua_bye` that comes too late. The peer's moves change
`stack` and append events in one step, so each command can cross any event.
`EarlyEnd` and `ReInvites` switch on two peers: one whose unanswered INVITE ends
with no CANCEL (early BYE, transport error, time out) and one that sends an
INVITE in a call. They are parameters because the code breaks under each in a
known way (below), and the properties that hold without them are worth having.

### SvdCalls

One action is one handler, from its first line to its return, with everything it
calls. `svd_handle_event_FXS_OFFHOOK`, `..._ONHOOK`, `..._DIGIT_X`, `Hash` (the
same handler with `#`) and `dtmf_timer_cb` are the telephone side; `Deliver`
splits `svd_nua_callback` by event, and `i_state_*` splits `svd_i_state` by
call state. `ClearFields`, `svd_clear_call` and `svd_bye` are shared as in
the code. Details that matter are kept: the off-hook loop sets `op_handle` to
NULL *before* `svd_clear_call`, so the handle is not destroyed; `svd_i_cancel`
does the same; `svd_i_state` finds the first channel of a handle only, while
`svd_parse_sdp` writes every channel of it; `#` mutes the line after the busy
tone has started; a full digit buffer leaves the timer running. `svd_answer`
can fail in two ways.

The switch of the media is kept ioctl by ioctl, because its result is ignored:
`ab_chan_media_switch` does nothing when `is_up` says so, otherwise it tries both
coders, and `is_up` follows only if neither failed (`fails` are those that did);
`i_state_ready` and `i_state_terminated` go on whatever comes of it. `coders` is
what runs in the hardware, and `switched` is a history variable: did the last
switch that tried the coders succeed? `CoderFails` are the coders on which a
switch may fail: the decoder in `one_line`, none in the other runs, whose
properties do not read them, any in the theorems.

Abstracted: the digits (their number is kept, since the buffer has a limit),
the account of an outgoing call (any: `SvdDialOut` says which), and what
the hardware does otherwise: the line feed, the RTP set-up and the settings
before the start of the media may fail as a whole, ring, tones and LEDs always
succeed (`SvdMedia` has the steps of each and its failures). Caller id, codecs
and INFO are left out.

### SvdRegistration

Starts where `svd_refresh_registration` ends: every enabled account has sent an
un-REGISTER on a new handle. `svd_r_register` is split by the class of the
status; each part ends with the LED like the function. `request`,
`has_registrations` and `answers` are the stack's side of one handle.
`Refreshes` is the stack registering again by itself before the expiry, which
may fail like any other request. `svd_shutdown` destroys the timers, starts
`nua_shutdown` and forgets the stack; `svd_r_shutdown` is delivered its reports.
`Waits` says whether a 401 may be unanswerable (no usable challenge).

### AbChan and FxsLine

A call of libab computes its ioctls from the cache, then each succeeds (hardware
and cache move) or fails. A line function gives up at the first failure;
`ab_chan_media_switch` goes on to the decoder. `FxsLine` is the promise: ring,
tone and feed change one at a time, a tone is stopped before another starts, a
disabled feed goes through standby. `AbChan` implements it with the hardware as
refinement mapping (`LineIsKept`).

### SvdMedia

`AbChan` lets anybody call anything. Here the callers are the handlers of
`svd_i_state`, the telephone and `svd_clear_call`: each is a *job*, the list of
libab calls it has still to make, and nothing else starts before it is over, as
in one thread. `ctx` is what the session descriptions have left in the channel
(codec, payload types, peer address), `rtp` what the hardware was told.
`ab_chan_media_activate` is its five settings and the switch; a setting that
fails ends it, and `svd_i_state` only logs that (`svd_ua.c:966-968`): the call goes
on with whatever was set.
`Sdp` holds descriptions that differ in everything a later call could inherit.

### SvdConfig, SvdInviteTo and SvdDialOut

`SvdConfig` reads one section per step, in any order, into the vectors of
`g_conf`; a section sees what those above it left. Kept: the dropping of bad
accounts and entries, the index that an entry keeps, the codec list with its
end, the priorities "by order of definition", the correction of the windows, the
refusals (`svd_conf_init` returns -1). `SvdInviteTo` is the two loops one
comparison per step, over variables, so it can be instantiated on any vectors.
`SvdDialOut` instantiates it on those of `SvdConfig`; registrations come and go
between two calls. "Fits" in the properties is what the code tests, a prefix that
matches *and* an account that works; the README of svd speaks of the prefix alone
(see [Disagreements found](#disagreements-found)).

### SvdInterface and SvdLifecycle

`SvdInterface` is one datagram: accepted or not, which channels it selects, and
the text of the answer as a sequence of brackets, commas and items, with
statistics that cannot be read and no memory for the answer.

`SvdLifecycle` writes `main` and the functions it calls as one list of steps
(`Plan`), each of which acquires something, and each unwinding as a list of
releases. `held` is what the program has; `ptr` what its pointers and descriptors
say. A release looks at `ptr`; if what it releases is not in `held` this goes to
`wrong`, and `orphans` has what was released while something needed it. The main
loop takes commands (`SvdInterface`), and a signal may run `svd_shutdown` between
any two releases.

## Runs

| Run | Question | Result |
|---|---|---|
| `calls_two` | two phones and two calls, a peer without re-INVITE or silent end: at most one answerer (`OneAnswerer`), no destroyed handle kept (`NoDanglingHandle`) | holds |
| `calls_any_peer` | the same phones with every peer: dial timer only when idle, call has handle and account, no stale peer address, hanging up ends the call, no call replaced | holds |
| `one_line` | one phone, three calls, fairness: types and digit buffer; ringing only with a call; a coder runs without a call only where a failed switch left it (`MediaOnlyInCall`); a hung up line becomes free, an ended call is noticed | holds |
| `registration` | two enabled accounts and a disabled one: flag, LED, retry, shutdown, safety and liveness | holds |
| `line_calls` | the calls of a line and their media with any ioctl failing: return value (`LineCallSucceeds`), codec and payload types in the hardware (`AgreedCoder`), nothing of one call in the next (`OnlyWhatWasSaid`), coders off at the end (`MediaOffAfterCall`), refinement of `FxsLine` | holds |
| `choose_account` | every file of up to four sections, every number dialled after it: the plan leads to the account named, order and priorities, codec lists, windows, codec sections; then dial plan and priority decide among the accounts that work | holds |
| `daemon` | `main` with every step failing, commands and signals: lists well formed (`AnswersAreLists`), what is released was held (`ReleasedOnce`) and not in use (`DependantsGoFirst`), nothing is left (`NothingLeft`) | holds, with the exceptions named below |
| `answer_clears_others`, `ended_call_rings`, `reinvite_rings`, `shutdown_cut_short`, `media_switch` | what a comment says against what the code does | violated |

Operators named `Wrong_*` stand beside the operator they would replace: a slip
the code does not make. Each property is violated when one of them is put in
(`mutants` in `PROJECT.json`), which shows that it depends on the code.

Some properties name what the code does not keep, so that the rest can be checked
beside it:

- `MediaOnlyInCall` and `MediaOffAfterCall` leave out a line whose last switch of the
  coders failed (`switched`, `clean`): what the code does then is in the run
  `media_switch` and under "a failed stop" below.
- `AnswersAreLists` leaves out `LoneActive`: with one active channel that is not the
  last of the board the JSON list has a comma after it (`svd_server_if.c:392`).
- `ReleasedOnce`: the vectors of `g_conf` go with the home of `svd`
  (`svd.c:357`) and again in `svd_conf_destroy`; a second shutdown destroys the
  timers of registration again, as `reg_tmr` is not reset (`svd_ua.c:560`).
- `DependantsGoFirst`: the stack outlives its root, since `svd->nua` is only forgotten,
  and the socket of the interface is closed before its wait is unregistered.
- `NothingLeft`: the stack is never destroyed; the firmware file stays open when its
  size cannot be read; descriptor 0 is closed when the interface fails before
  it has a socket (`ifd` is 0 then).
- `CodecListEnds` asks that a list names no codec twice; `account_add` does not.
- After an allocation failure of `chans` or `devs` `ab_destroy` stops a device that
  was never described, and a signal after `g_conf` and `svd` are gone works on
  freed memory: the model ends there ("undefined").

### Bounds

- Two phones are the board's number, and enough for everything that
  happens between an answering phone and another one. `one_line` has one phone
  because picking up a call breaks `RingingHasCall` and `MediaOnlyInCall` on a *second*
  phone (`answer_clears_others`).
- Two handles (three in `one_line`): handles are never reused, so this is the
  number of calls of a behaviour. Two let an outgoing or incoming call meet
  another one on either phone; three let a line be used again after a crossing.
- `MaxDigits = 2` for 40 in `one_line`: the buffer has an empty, a partly filled
  and a full state. In the runs with two phones it is 1 (every digit fills the
  buffer): the digits of a phone are read by its own call only, and the timer,
  which matters to the others, is set either way.
- `MaxEvents = 2` or `3`: events of two steps of the peer wait at once, and commands
  of the program cross them. `MaxEvents = 3` with every peer at once is beyond a
  few minutes; the proofs of the same properties have no bound.
- `CoderFails` is the decoder in `one_line`: a start leaves the encoder on and `is_up` at
  0, a stop leaves the decoder on and `is_up` at 1. The encoder failing gives the same with
  the names exchanged; both, in any mixture over several calls, take longer than a
  run may, and the theorem `MediaHasCall` is for all of them. None fails in the other
  runs of `SvdCalls`.
- `registration`: three accounts, two enabled; two answers waiting per account (a provisional
  and a final one); two shutdown reports waiting.
- `choose_account`: `MaxSections = 4` of 16 sections: two accounts of one name around
  another and an entry, or an entry above its account, or the same codec or
  channel three times over. Accounts with given priorities (0 and 1), without, disabled and
  incomplete; two prefixes; a codec list with all codecs (`CodMasSize = 5`), with
  unknown ones in it and with none. Two channels, of which the file names one.
- `line_calls`: two codecs, `FaxPayload = 8`, two descriptions, with events and
  without. There is no bound on the number of calls or of failures.
- `daemon`: three channels (so that "first", "last" and "between" differ), `ChansMax = 4`
  (a channel number can be past the board's and past the array's), two accounts;
  `MaxShutdowns = 2` (one request and one that meets it), `MaxSkipped = 2` (two
  optional steps of the start fail, on one channel or on two).

### Fairness

- `WF(svd_nua_callback)`, `WF(svd_r_register)`, `WF(svd_r_shutdown)`, `WF(reg_timer_cb)`: `su_root_run`
  keeps delivering events and timers.
- The stack ends what it was told to end, and a request to a registrar ends: SIP
  transactions time out and sofia-sip then reports 408. These are *strong*,
  since the bound on the queue, which the real stack does not have, can
  disable them again and again.
- `WF(ShutdownStarts)`: `nua_shutdown` reports once. That it ever finishes
  is not assumed, and not needed, since the loop is broken at the first report.
- Nothing is assumed of the people at the phones, nor that a peer answers.

### Deadlock

Checked in the runs of `SvdCalls`, `SvdMedia` and `AbChan`. Switched off where the
program really ends: after `su_root_break` (`registration`), when a file is refused
(`choose_account`), when `main` has returned (`daemon`).

## Disagreements found

1. **Answering drops other calls** (`svd_atab.c:700`). The off-hook loop clears
   every other channel instead of those with the same handle. In the trace phone 0 is
   in an outgoing call, phone 1 rings for another one and is picked up: phone 0
   has lost its call, which goes on in the stack without a BYE.
2. **A call that ends without CANCEL leaves the second phone ringing**
   (`svd_ua.c:989`): `svd_i_state` clears the first channel only.
3. **A re-INVITE rings the other phone** (`svd_ua.c:778`) with the handle of the
   answered call, or, when no phone is idle, destroys the handle of the live call.
4. **The shutdown is cut short** (`svd_ua.c:1187`): the loop ends at status 100.
5. **A half failed media start cannot be undone** (`ab_media.c:561`): `is_up`
   stays 0, so the switch off returns 0 and does nothing.

Each has a run of its own whose counterexample is the shortest trace.

Met while modelling, and without a run (the properties except them by name):

- A failed stop of the media is ignored (`svd_ua.c:984`, under the comment "deactivate
  media"): the call is cleared with `is_up` at 1 and a coder running. The next call on
  the line finds the media up and starts nothing, and the end of that call turns it
  off. `MediaOnlyInCall` without `switched` is false for this reason.
- A dial plan entry that matches is passed over when its account is disabled or
  not registered (`svd_ua.c:288`). The README of svd (lines 18-20 and 131-133) lets
  the priority decide only "if no dialplan entry matches"; the code also does so when
  the matching entry's account does not work, and then keeps the prefix.
- The stack is never destroyed (`svd_ua.c:562`): `svd_shutdown` forgets it first, and
  nothing reaches it afterwards, although `svd_destroy` "calls all appropriate
  functions to destroy sofia-sip objects" (`svd.c:340`).
- Media: packets that arrive at the RTP socket are written to the channel whether it has a call or
  not; `te_payload` is never taken back by a re-INVITE; a `telephone-event` that
  comes first activates encoder type 0; the payload type of faxes overwrites
  that of ALAW; the codec's name is compared with case; `svd_parse_sdp` loses the
  previous `remote_host`; `bpack` of the file never reaches the coder.
- Configuration: dial plan entries above their account are dropped, with an
  uninitialised variable on the way; user payloads may collide; `jb_scaling` of 16
  and more wraps in a char although `ab_api.h:33` gives [16;255]; the README's
  default codec order (G723 before iLBC, no G726-24) is not that of the enum; its
  minimal configuration lacks `rtp_interface`, which is required unless the
  program is built with `DONT_BIND_TO_DEVICE`; the loop of `conf_show` starts at an
  uninitialised `i` (`svd_cfg.c:1210`).
- Start and end: `main` returns 0 when `ab_create` or `svd_create` failed, although
  `svd.c:62` says -1; the doc of `ab_destroy` says that it sets `*ab` to NULL, it sets
  its own copy; and the exceptions above.
- Control socket: the reply's buffer is lost when a command fails; the CLI form
  of ACTIVE with no active channel sends an empty datagram; the shutdown is
  done even if its reply cannot be sent.
- Registration: an answer 201 to 299 to a REGISTER is neither success nor failure
  (`svd_ua.c:1242`).

## Proofs

All are for any values of the constants that satisfy the named assumptions
(`ChanAssumption`, `StackAssumption`, `RegAssumption`, `AbChanAssumption`,
`MediaAssumption`, `ConfigAssumption`, `InterfaceAssumption`, `LifecycleAssumption`). They
give the types of the parameters, keep NULL apart from handles, accounts, codecs and
names, and say two things of the sizes that the code fixes: `g_conf.cp` has 11 codecs
for the 15 places of `COD_MAS_SIZE`, and a board has a channel and at most
`CHANS_MAX` of them. TLC evaluates them in every run. `SvdInviteTo` has no constants
and no assumption. Where a theorem needs more than these it says so itself.

**`SvdCallsProofs`**: any number of phones, accounts and handles, any queue.
- `TypeCorrect`: lemmas on the stack's commands and on `ClearFields`, then
  one lemma for the phones, one for the events, one for the peer.
- `TimerOnlyWhenIdle`, `HandleAndAccount` and `PeerForgotten` come from `CallInv`,
  their conjunction, which is inductive only together: a ringing call may be put on a
  channel because the timer of a phone on the hook is off; the timer may
  place a call because the channel has none.
- `NoCallReplaced` is an action property from `CallInv`: the places that set
  `op_handle` test it (`svd_i_invite`) or run on an idle channel only (the timer).
- `HangingUpEndsTheCall` needs two more facts: a handle in a channel was created
  (`KnownBound`), and so was one in the queue (`KnownQueued`). Otherwise
  `svd_bye` could meet a session that has not begun and leave it alive.

**`SvdRegistrationProofs`**: `RegInv` follows the *last* answer in the queue of
an account. When no request is under way, that answer says what the registrar
thinks (`Known`) and that the account goes on (`GoesOn`), and an answer after which
the handle goes is always the last one (`EndIsLast`), so no later answer is lost
with it. `NoHandle` relates timer, handle and queue; `LedFollows` ties the
LED to the flags. From it `RegistrationIsKnown`, `LedIsTrue`, `RetryIsAlone` and, for
`Waits = {TRUE}`, `NeverGivenUp`.

**`AbChanProofs`**: `ChanInv` says that the cache is true after every ioctl and
that the ioctls a call has left lead to what it was asked (`Planned`). From it the
return value (`ZeroMeansDone`) and the refinement (`ImplementsLine`): every ioctl
is a legal step of `FxsLine` or a stutter.

**`SvdHandlesProofs`**: who has a handle, and what is still in the queue for it.
- `OnePhoneAnswers` assumes a peer that sends no INVITE in a call (`~ReInvites`; with
  one it is false, run `reinvite_rings`). A handle can be on two channels only until it is
  answered. Later it could come to another channel by an INVITE that is still
  in the queue; `NewCallWaits` says that an INVITE in the queue comes before all
  events of its handle, and that no channel has the handle yet.
- `NoHandleDangles` assumes in addition that a call is given up by CANCEL
  (`~EarlyEnd`; without that it is false, run `ended_call_rings`). `CancelBeforeEnd`: a CANCEL in
  the queue precedes the end it causes; it takes the handle off every channel. So an end
  that destroys a handle (`SettledIsSingle`) finds it on one channel at most.
- `RingsForCall` and `MediaHasCall` are for one phone and any peer: on a second phone
  the off-hook loop breaks both (run `answer_clears_others`). `MediaHasCall` is for
  starts and stops that fail in any way, and says of a coder without a call that the last
  switch failed. `EarlyIsQuiet`: no coder of a handle that was not answered runs but by
  such a failure, so losing the handle is harmless. `UpIsCoding`: after a switch
  that succeeded `is_up` is what the coders do, so the stop at the end of the call does
  not take a running coder for a stopped one.

**`SvdMediaProofs`**: `JobPlan` lists the forms a job can have; each remaining list
says what the steps before it have reached (`Agreed`, `Off`), and `Coders`
that the cache of libab knows encoder and decoder until a switch fails. What
`AbChanProofs` says of any calls holds of these, so return value and refinement
carry over (`ZeroMeansDoneForCalls`, `CallsKeepLine`); `CodesAsAgreed`,
`NothingIsLeft` and `CodersAreOff` are for any set of codecs and descriptions. The
last one holds while `clean`: no switch of the media has failed, or one has succeeded
after it. Otherwise a deactivation may return 0 with a coder on (run `media_switch`).

**`SvdInviteToProofs`**: loop invariants over vectors of any length; the indices stay
inside the vectors. The first entry that matches and whose account works decides, else
the lowest priority among the accounts that work: the rule of the code, which is not
quite that of the README of svd (see [Disagreements found](#disagreements-found)).

**`SvdDialOutProofs`**: files of any length with any sections, and the call after it.
`FileInv` ties each vector to the sections its items come from; as a section is added
at the end, what was said of the earlier ones stays true.
- From it `PlanLeadsToName` and `FirstComesFirst`; from `ChanInv` `WindowsFit`; from
  `CodecsInv` `CodecSectionsAddUp`.
- `CodecListsEnd`: `ListsInv` says that the codecs of an account are those of its section.
  The places of the names that are known map one to one into the codecs when none is
  named twice, so there are at most 11 of them, and 12 with `telephone-event`.
- `VectorsTyped` gives the vectors the types that `svd_invite_to` relies on, so the
  lemmas of `SvdInviteToProofs`, instantiated on them, give `PlanOfFileDecides` and
  `PriorityOfFileDecides` for every file.

**`SvdLifecycleProofs`**: a board of any size, any accounts, any optional steps skipped, any
failure, any number of commands and signals.
- `LifeInvHolds`. The invariant `LifeInv` relates `held` and `ptr` to the releases still to
  make. They are always some operations of `svd_shutdown`, put there by a command, a
  signal or the unwinding itself, and then a tail of the one list that unwinds everything
  (`Listed`): a start that fails enters it further down. Each thing that can be held
  has its place in that list (`Place`), and what is still held lies in the part to come
  (`Ordered`), so the next release finds what it releases, and what depends on it, which
  has an earlier place, is gone. Neither half is inductive alone.
  The timers of the registrations have no place: `svd_shutdown` destroys them, so
  `TimersGo` says that a shutdown which will do so is under way or still to come, and
  `OneShutdown` that the first one meets each timer once.
- `EverReleasedOnce`, `DependantsEverFirst` and `NothingEverLeft` follow: the first two
  are parts of it, the third is `Ordered` when the list is empty. Each excepts what the
  code breaks: the vectors and, after a second shutdown, the timers (released twice);
  the stack on its root and the wait on the interface's socket (released late, or never);
  the stack, the firmware file and, on one path, the standard input (left, or lost).
- `AnswersEverLists`, of every list but that of `LoneActive`: `Active` and `UpFrom` are recursive functions from the last channel
  down. `DownTo`, an induction over a set of numbers, shows that they are functions
  and what each has written from channel `c` on in each of the three states of the loop
  of `svd_exec_2af`; `Separated` is arithmetic on the places of the commas.

`tlapm` 1.4.5 gives Z3 two axioms on sequences, that `Len(s)` is never negative and that
`DOMAIN s = 1 .. n` says the same as `Len(s) = n`, for any `s`: a function on `0 .. N`
contradicts them. No proof here rests on that: every leaf that Z3 proves it also
proves when the first axiom is taken out of its input.

Model-checked only: the liveness properties (`HungUpLineIsFreed`,
`EndedCallIsNoticed`, `KeepsTrying`, `ShutdownStops`), which need ENABLED and fairness,
out of the prover's reach. Every invariant and action property of a passing run is
stated by a theorem; those of `SvdHandlesProofs` and `NeverGivenUp` under the hypotheses
named above, which the runs make too by their constants.

## What is not modelled

- The search for a free RTP port and the binding to an interface, RTP packets
  themselves, caller id.
- The fax switch (`svd_handle_event_FM_CED`, `svd_atab.c:860`) changes nothing:
  `ab_chan_fax_pass_through_start` returns -1 before its first statement
  (`ab_media.c:22`, "function not implemented").
- The digits: `SvdCalls` counts them, `SvdDialOut` has the prefixes they match, but
  the number after the removal of a prefix is text.
- In `SvdCalls` the end of all calls at shutdown (`svd_ua.c:1175`), which
  `SvdRegistration` has as a report and `SvdLifecycle` as the end of the loop.
- A signal in the middle of a SIP or telephone handler. `SvdLifecycle` has signals
  between any two releases and any two commands.
- The exit status of `main`, the command line (`startup_init`), logging and fork.
- The statistics (floating point) and what is inside an item of an answer.
- The hardware's other settings: gains, jitter buffer sizes, custom tones; FXO.
- The web interface, the client `svd_if`, packaging, the vendored `po2lmo`:
  no state of their own, or not part of the running program.

Hazards of `PROJECT.json` that no property covers have a note that says why.

## Plan

All modules planned are written. What would come next, most important first:

1. `SvdCalls` with the `svd_bye` of all channels at shutdown, and its composition with
   `SvdRegistration` over one queue of events.
2. A refinement of `SvdCalls` in which the media of each channel is `SvdMedia`: the
   settings before the switch one by one, with the calls of the other phone.
3. The search for RTP ports and what happens when none is free.
