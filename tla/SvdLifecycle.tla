---------------------------- MODULE SvdLifecycle ----------------------------
(***************************************************************************)
(* main of svd: ab_create, svd_create and svd_create_interface acquire     *)
(* what the program needs, each step may fail, and a step that fails       *)
(* unwinds what there is; then the main loop runs until svd_shutdown ends  *)
(* it, by a command of the control socket or by a signal.                  *)
(*                                                                         *)
(* The model keeps two sets apart: what the program really holds, and what *)
(* its pointers and descriptors say.  A signal may come between any two    *)
(* releases.  A release of what is not held is recorded and changes        *)
(* nothing, though in C it may do anything.                                *)
(*                                                                         *)
(* Abstracted: memory that a function frees itself, the strings of g_conf, *)
(* and what the steps do besides acquiring.                                *)
(***************************************************************************)
EXTENDS SvdInterface

CONSTANTS MaxShutdowns, \* bound: requests to end the program
          MaxSkipped    \* bound: steps that fail without ending the start

ASSUME LifecycleAssumption == MaxShutdowns \in Nat /\ MaxSkipped \in Nat

One(kind) == <<kind, 0>>
Each(kind, n) == {<<kind, i>> : i \in 0 .. n - 1}

Vectors == {One("sip_account"), One("dial_plan")}
Timers == Each("reg_tmr", NumAccounts)

VARIABLES phase,     \* "start", "loop", "end", "exit" or "undefined"
          passed,    \* the steps of the start that are over
          skipped,   \* how many of them failed
          held,      \* what is acquired and not released
          ptr,       \* what the pointers and descriptors say is acquired
          todo,      \* the releases that the running functions still make
          requests,  \* how often the program was asked to end
          wrong,     \* history: what was released without being held
          orphans    \* history: <<d, r>>, r was released while d needed it

lifeVars == <<phase, passed, skipped, held, ptr, todo, requests, wrong, orphans>>

-----------------------------------------------------------------------------
(***************************************************************************)
(* The steps of the start.  One that fails ends the start, or skips the    *)
(* next steps of its function, whose result nobody reads.                  *)
(***************************************************************************)
Must(get) == [get |-> get, may |-> FALSE, skip |-> 0]
May(get, skip) == [get |-> get, may |-> TRUE, skip |-> skip]

\* The descriptor of a channel, then its default tones
ab_chans == [k \in 1 .. 2 * NumChans |->
               Must(IF k % 2 = 1 THEN {<<"chan_fd", k \div 2>>} ELSE {})]
tapi_dev_start == <<Must({})>>

\* dprms and ab, chans and devs, the descriptors, the firmware
ab_create == <<Must({}), Must({One("ab")}), Must({One("chans"), One("devs")}),
               Must({One("dev_fd")})>> \o ab_chans \o tapi_dev_start

\* svd_chans_init: the context, then svd_media_register, whose steps need one
\* another, then the timer
ChanStep(c, k) ==
  CASE k = 0 -> Must({<<"ctx", c>>})
    [] k = 1 -> May({<<"local_wait", c>>}, 2)
    [] k = 2 -> May({<<"rtp_sfd", c>>}, 1)
    [] k = 3 -> May({<<"remote_wait", c>>}, 0)
    [] k = 4 -> May({<<"dtmf_tmr", c>>}, 0)

svd_chans_init ==
  [k \in 1 .. 5 * NumChans |-> ChanStep((k - 1) \div 5, (k - 1) % 5)]
attach_dev_cb == <<Must({One("dev_wait")})>>

\* svd and its home, the vectors, the file, the parser, the root
svd_conf_init == <<Must({One("sip_account")}), Must({One("dial_plan")}), Must({})>>
svd_root == <<Must({}), Must({One("root")})>>
svd_refresh_registration ==
  [a \in 1 .. NumAccounts |-> May({<<"reg_tmr", a - 1>>}, 0)]

svd_create ==
  <<Must({One("svd")}), Must({})>> \o svd_conf_init \o svd_root
    \o svd_chans_init \o attach_dev_cb \o <<Must({One("nua")})>>
    \o svd_refresh_registration

\* The directory, socket(), bind(), the wait
svd_create_interface == <<Must({}), Must({One("ifd")}), Must({One("if_name")}),
                          Must({One("if_wait")})>>

Plan == ab_create \o svd_create \o svd_create_interface

InAb(n) == n <= Len(ab_create)
InSvd(n) == ~InAb(n) /\ n <= Len(ab_create) + Len(svd_create)

\* What cannot work, or is not part of anything, once r is gone
Needs(d, r) ==
  \/ r = One("root") /\ d[1] \in {"local_wait", "remote_wait", "dtmf_tmr",
                                  "reg_tmr", "nua"}
  \/ d[1] = "local_wait" /\ r \in {<<"chan_fd", d[2]>>, <<"ctx", d[2]>>}
  \/ d[1] = "remote_wait" /\ r \in {<<"rtp_sfd", d[2]>>, <<"ctx", d[2]>>}
  \/ d[1] \in {"rtp_sfd", "dtmf_tmr"} /\ r = <<"ctx", d[2]>>
  \/ d[1] = "dev_wait" /\ r = One("dev_fd")
  \/ d[1] = "if_wait" /\ r = One("ifd")
  \/ d[1] = "reg_tmr" /\ r = One("sip_account")
  \/ d[1] \in {"root", "sip_account", "dial_plan", "ifd"} /\ r = One("svd")
  \/ d[1] \in {"chan_fd", "ctx"} /\ r = One("chans")
  \/ d[1] = "dev_fd" /\ r = One("devs")
  \/ d[1] \in {"chans", "devs"} /\ r = One("ab")

-----------------------------------------------------------------------------
(***************************************************************************)
(* Releases, in the order of the code.  "free": if the pointer says so,    *)
(* and it is reset or never looked at again.                               *)
(***************************************************************************)
Free(kind, i) == <<"free", <<kind, i>>>>
Do(what) == <<what, One("")>>

\* svd_shutdown: reg_tmr is not reset.
ShutdownOps ==
  [a \in 1 .. NumAccounts |-> <<"destroy", <<"reg_tmr", a - 1>>>>]
    \o <<Do("nua_shutdown")>>

\* svd_media_unregister between the timer and the context
Wrong_ChanOrder == <<"dtmf_tmr", "ctx", "local_wait", "remote_wait", "rtp_sfd">>
ChanOrder == <<"dtmf_tmr", "local_wait", "remote_wait", "rtp_sfd", "ctx">>

svd_atab_delete ==
  [k \in 1 .. 5 * NumChans |-> Free(ChanOrder[((k - 1) % 5) + 1], (k - 1) \div 5)]

svd_destroy ==
  svd_atab_delete \o <<Do("svd_shutdown"), Free("root", 0), Do("su_home_deinit"),
                       Free("svd", 0)>>

svd_destroy_interface == <<Do("close_ifd"), Free("if_name", 0)>>

svd_conf_destroy == <<Free("dial_plan", 0), Free("sip_account", 0)>>

Wrong_CloseChans == << >>
CloseChans == [c \in 1 .. NumChans |-> Free("chan_fd", c - 1)]

ab_destroy ==
  CloseChans
    \o <<Free("chans", 0), Free("dev_fd", 0), Free("devs", 0), Free("ab", 0)>>

\* main, from __if and from __conf
UnwindFromConf == svd_conf_destroy \o ab_destroy
UnwindFromIf == svd_destroy_interface \o svd_destroy \o UnwindFromConf

\* What step n calls when it fails.  Of a part that does not exist yet nothing
\* is released.
Unwind(n) ==
  CASE InAb(n)  -> ab_destroy
    [] InSvd(n) -> svd_destroy \o UnwindFromConf
    [] OTHER    -> UnwindFromIf

-----------------------------------------------------------------------------
LifecycleInit ==
  /\ InterfaceInit
  /\ phase = "start" /\ passed = 0 /\ skipped = 0
  /\ held = {One("stdin")} /\ ptr = {}
  /\ todo = << >> /\ requests = 0
  /\ wrong = {} /\ orphans = {}

StepSucceeds ==
  /\ phase = "start"
  /\ passed' = passed + 1
  /\ held' = held \union Plan[passed'].get
  /\ ptr' = ptr \union Plan[passed'].get
  /\ phase' = IF passed' = Len(Plan) THEN "loop" ELSE phase
  /\ UNCHANGED <<skipped, todo, requests, wrong, orphans, ifVars>>

StepIsSkipped ==
  /\ phase = "start" /\ Plan[passed + 1].may
  /\ passed' = passed + 1 + Plan[passed + 1].skip
  /\ skipped < MaxSkipped /\ skipped' = skipped + 1
  /\ UNCHANGED <<phase, held, ptr, todo, requests, wrong, orphans, ifVars>>

\* Without chans or devs ab_destroy stops a device that was never described.
\* A firmware file whose size cannot be read stays open.
StepFails ==
  /\ phase = "start" /\ ~Plan[passed + 1].may
  /\ phase' = IF One("devs") \in Plan[passed + 1].get THEN "undefined"
              ELSE "unwind"
  /\ todo' = Unwind(passed + 1)
  /\ \/ UNCHANGED held
     \/ passed + 1 = Len(ab_create) /\ held' = held \union {One("fw_file")}
  /\ UNCHANGED <<passed, skipped, ptr, requests, wrong, orphans, ifVars>>

-----------------------------------------------------------------------------
(***************************************************************************)
(* The functions that release                                              *)
(***************************************************************************)
Release(what) ==
  /\ held' = held \ what
  /\ wrong' = wrong \union (what \ held)
  /\ orphans' = orphans \union
       {p \in held' \X what : Needs(p[1], p[2])}

\* What there is to release: the functions ask for the pointer or descriptor.
\* su_root_destroy destroys the waits that are still registered.
Wrong_GoesWith(r) == {r}
GoesWith(r) ==
  IF r = One("root") THEN {r, One("dev_wait"), One("if_wait")} \intersect ptr
  ELSE {r} \intersect ptr

Runs(op) == phase # "undefined" /\ todo # << >> /\ Head(todo)[1] = op
Done == todo' = Tail(todo) /\ UNCHANGED <<phase, passed, skipped, requests, ifVars>>

free ==
  /\ Runs("free")
  /\ Release(GoesWith(Head(todo)[2]))
  /\ ptr' = ptr \ GoesWith(Head(todo)[2])
  /\ Done

destroy ==
  /\ Runs("destroy")
  /\ Release(GoesWith(Head(todo)[2]))
  /\ UNCHANGED ptr
  /\ Done

\* svd->nua is reset at once, and nua_destroy is never called with the stack.
nua_shutdown ==
  /\ Runs("nua_shutdown")
  /\ ptr' = ptr \ {One("nua")}
  /\ UNCHANGED <<held, wrong, orphans>>
  /\ Done

\* svd_destroy shuts down a stack that nobody has shut down yet.
svd_shutdown ==
  /\ Runs("svd_shutdown")
  /\ todo' = (IF One("nua") \in ptr THEN ShutdownOps ELSE << >>) \o Tail(todo)
  /\ UNCHANGED <<phase, passed, skipped, held, ptr, requests, wrong, orphans, ifVars>>

\* The home releases what was made in it, and g_conf does not hear of it.
su_home_deinit ==
  /\ Runs("su_home_deinit")
  /\ Release(held \intersect Vectors)
  /\ UNCHANGED ptr
  /\ Done

\* svd->ifd is 0 before socket(), and -1 when that has failed.
close_ifd ==
  /\ Runs("close_ifd")
  /\ Release(IF One("ifd") \in ptr THEN {One("ifd")}
             ELSE IF passed = Len(ab_create) + Len(svd_create)
                  THEN {One("stdin")} ELSE {})
  /\ ptr' = ptr \ {One("ifd")}
  /\ Done

Exits ==
  /\ phase \in {"unwind", "end"} /\ todo = << >>
  /\ phase' = "exit"
  /\ UNCHANGED <<passed, skipped, held, ptr, todo, requests, wrong, orphans, ifVars>>

-----------------------------------------------------------------------------
(***************************************************************************)
(* The main loop, and what ends it                                         *)
(***************************************************************************)
Looping == phase = "loop" /\ todo = << >>

Shutdown(rest) ==
  /\ requests < MaxShutdowns
  /\ requests' = requests + 1
  /\ todo' = ShutdownOps \o rest

Command(m, bad, memory) ==
  /\ Looping
  /\ svd_if_handler(m, bad, memory)
  /\ IF Accepted(m) /\ m.cmd = "shutdown" THEN Shutdown(<< >>)
     ELSE UNCHANGED <<todo, requests>>
  /\ UNCHANGED <<phase, passed, skipped, held, ptr, wrong, orphans>>

CallsChange ==
  /\ Looping
  /\ MediaSwitched
  /\ UNCHANGED lifeVars

\* svd_r_shutdown, with the first answer of the stack.  The last answer of the
\* interface is of no interest any more.
svd_r_shutdown ==
  /\ Looping /\ requests > 0
  /\ phase' = "end"
  /\ todo' = UnwindFromIf
  /\ answered' = NoAnswer
  /\ UNCHANGED <<passed, skipped, held, ptr, requests, wrong, orphans, is_up>>

\* The handler runs svd_shutdown between any two steps, to the end of main;
\* when g_conf and svd are gone it works on freed memory.
term_handler ==
  /\ phase \in {"loop", "end"}
  /\ Shutdown(todo)
  /\ phase' = IF One("sip_account") \in held THEN phase ELSE "undefined"
  /\ UNCHANGED <<passed, skipped, held, ptr, wrong, orphans, ifVars>>

LifecycleNext ==
  \/ StepSucceeds \/ StepIsSkipped \/ StepFails
  \/ free \/ destroy \/ nua_shutdown \/ svd_shutdown \/ su_home_deinit
  \/ close_ifd \/ Exits
  \/ \E m \in Message, bad \in SUBSET {c \in Chan : is_up[c]}, memory \in BOOLEAN :
       Command(m, bad, memory)
  \/ CallsChange \/ svd_r_shutdown \/ term_handler

LifecycleSpec == LifecycleInit /\ [][LifecycleNext]_<<lifeVars, ifVars>>

-----------------------------------------------------------------------------
(***************************************************************************)
(* Properties                                                              *)
(***************************************************************************)
\* Wherever the start fails, and whatever a signal interrupts, what is
\* released was held: but for the vectors of g_conf, which the home has
\* released (svd.c:357, svd_cfg.c:1296), and for the timers of registration
\* when svd_shutdown is called twice (svd_ua.c:560).
ReleasedOnce ==
  wrong \subseteq Vectors \union (IF requests >= 2 THEN Timers ELSE {})

\* Nothing is released while what uses it is there, but the stack, which
\* outlives its root, and the socket of the interface, closed before its wait.
DependantsGoFirst ==
  orphans \subseteq {<<One("nua"), One("root")>>, <<One("if_wait"), One("ifd")>>}

\* A program that ends has released what it got, on every path of the start
\* and of the end, but the stack and the firmware file; it has its standard
\* input still, unless the interface failed before it had a socket.
NothingLeft ==
  phase = "exit" =>
    /\ held \subseteq {One("nua"), One("stdin"), One("fw_file")}
    /\ One("stdin") \in held \/ passed = Len(ab_create) + Len(svd_create)
=============================================================================
