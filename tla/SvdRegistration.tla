--------------------------- MODULE SvdRegistration ---------------------------
(***************************************************************************)
(* The SIP accounts of svd: how each gets registered when the program      *)
(* starts, is tried again after a failure, and what svd_shutdown leaves    *)
(* behind.  The handlers run one at a time in su_root_run; the SIP stack   *)
(* and the registrars go on in between, so their answers wait in a queue.  *)
(*                                                                         *)
(* The stack is not part of src/.  A handle has at most one request under  *)
(* way, and what is queued for a handle that is destroyed is not           *)
(* delivered.  Answers of different accounts do not order each other.      *)
(*                                                                         *)
(* Abstracted: registration_reply and sip_contact, the one second of sleep *)
(* between the two requests, and failures to allocate memory.              *)
(***************************************************************************)
EXTENDS Naturals, Sequences

CONSTANTS Account,         \* g_conf.sip_account
          Enabled,         \* those with sip_account_s.enabled
          MaxAnswers,      \* bound: answers of one account not yet handled
          Waits            \* may the request of a 401 wait for credentials?

ASSUME RegAssumption ==
  /\ Enabled \subseteq Account
  /\ MaxAnswers \in Nat
  /\ Waits \subseteq BOOLEAN /\ TRUE \in Waits

VARIABLES registered,         \* sip_account_s.registered
          op_reg,             \* is sip_account_s.op_reg set?
          reg_tmr,            \* is sip_account_s.reg_tmr running?
          voip_led,           \* is the LED on?
          reg_tmrs_exist,     \* before su_timer_destroy
          svd_nua,            \* is svd->nua set?
          root_runs,          \* before su_root_break
          request,            \* the stack: the request of op_reg
          has_registrations,  \* the stack: is op_reg registered?
          answers,            \* the stack: queue of answers per account
          nua,                \* the stack: how far nua_shutdown is
          r_shutdown          \* the stack: queue of status of nua_r_shutdown

programVars == <<registered, op_reg, reg_tmr, voip_led, reg_tmrs_exist,
                 svd_nua, root_runs>>
stackVars == <<request, has_registrations, answers, nua, r_shutdown>>
vars == <<programVars, stackVars>>

Method  == {"unregister", "register"}
Request == {"none"} \union Method \union {"unregister_auth", "register_auth"}
Class   == {"provisional", "ok", "challenge", "failure"}  \* 1XX 200 401 >=300
Answer  == [method : Method, class : Class]

\* The fields have their types, and only an enabled account has a handle.
TypeOK ==
  /\ registered \in [Account -> BOOLEAN]
  /\ op_reg \in [Account -> BOOLEAN]
  /\ \A a \in Account : op_reg[a] => a \in Enabled
  /\ reg_tmr \in [Account -> BOOLEAN]
  /\ voip_led \in BOOLEAN
  /\ reg_tmrs_exist \in BOOLEAN
  /\ svd_nua \in BOOLEAN
  /\ root_runs \in BOOLEAN
  /\ request \in [Account -> Request]
  /\ has_registrations \in [Account -> BOOLEAN]
  /\ answers \in [Account -> Seq(Answer)]
  /\ nua \in {"running", "told", "closing", "closed"}
  /\ r_shutdown \in Seq({100, 101, 200, 500})

\* svd_refresh_registration: the accounts that are unregistered on a new handle
Wrong_Refreshed == Account
Refreshed == Enabled

\* The main loop starts after it, when no handle has registrations yet.
Init ==
  /\ registered = [a \in Account |-> FALSE]
  /\ op_reg = [a \in Account |-> a \in Refreshed]
  /\ reg_tmr = [a \in Account |-> FALSE]
  /\ voip_led = FALSE
  /\ reg_tmrs_exist = TRUE /\ svd_nua = TRUE /\ root_runs = TRUE
  /\ request = [a \in Account |->
                IF a \in Refreshed THEN "unregister" ELSE "none"]
  /\ has_registrations = [a \in Account |-> FALSE]
  /\ answers = [a \in Account |-> << >>]
  /\ nua = "running" /\ r_shutdown = << >>

-----------------------------------------------------------------------------
(***************************************************************************)
(* The handlers of svd_ua.c.  Operators named Wrong_* are slips the code    *)
(* does not make: every property is shown to notice one of them.           *)
(***************************************************************************)
\* svd_register: a new handle and a REGISTER on it.  After svd_shutdown there
\* is no stack to make the handle.
Wrong_svd_register(a) == UNCHANGED <<op_reg, request>>
svd_register(a) ==
  IF has_registrations[a]
  THEN UNCHANGED <<op_reg, request>>
  ELSE /\ op_reg' = [op_reg EXCEPT ![a] = svd_nua]
       /\ request' = IF svd_nua THEN [request EXCEPT ![a] = "register"]
                     ELSE request

\* svd_authenticate: the request goes on with the credentials, if it waits
Wrong_Authenticated(a) == request
Authenticated(a) ==
  CASE request[a] = "unregister_auth" -> [request EXCEPT ![a] = "unregister"]
    [] request[a] = "register_auth"   -> [request EXCEPT ![a] = "register"]
    [] OTHER                          -> request

\* svd_r_register, the end: the LED is on if any account is registered
Wrong_AnyRegistered == \E a \in Account : registered[a]
AnyRegistered == \E a \in Account : registered'[a]

Delivered(a, ans) ==
  /\ root_runs
  /\ answers[a] # << >>
  /\ Head(answers[a]) = ans

\* registered is reset at the start and set by a 200 for a REGISTER
Wrong_NowRegistered(a, yes) == registered' = [registered EXCEPT ![a] = @ \/ yes]
NowRegistered(a, yes) == registered' = [registered EXCEPT ![a] = yes]

Taken(a) == answers' = [answers EXCEPT ![a] = Tail(@)]

r_register_provisional(a, m) ==
  /\ Delivered(a, [method |-> m, class |-> "provisional"])
  /\ NowRegistered(a, FALSE)
  /\ Taken(a)
  /\ UNCHANGED <<op_reg, reg_tmr, request, has_registrations>>

r_register_ok(a, m) ==
  /\ Delivered(a, [method |-> m, class |-> "ok"])
  /\ NowRegistered(a, m = "register")
  /\ Taken(a)
  /\ IF m = "unregister" THEN svd_register(a) ELSE UNCHANGED <<op_reg, request>>
  /\ UNCHANGED <<reg_tmr, has_registrations>>

r_register_challenge(a, m) ==
  /\ Delivered(a, [method |-> m, class |-> "challenge"])
  /\ NowRegistered(a, FALSE)
  /\ Taken(a)
  /\ request' = Authenticated(a)
  /\ UNCHANGED <<op_reg, reg_tmr, has_registrations>>

\* The handle is destroyed, and the account is tried again in 30 seconds.
Wrong_r_register_failure(a, m) ==
  /\ Delivered(a, [method |-> m, class |-> "failure"])
  /\ NowRegistered(a, FALSE)
  /\ Taken(a)
  /\ reg_tmr' = [reg_tmr EXCEPT ![a] = TRUE]
  /\ UNCHANGED <<op_reg, request, has_registrations>>
r_register_failure(a, m) ==
  /\ Delivered(a, [method |-> m, class |-> "failure"])
  /\ NowRegistered(a, FALSE)
  /\ op_reg' = [op_reg EXCEPT ![a] = FALSE]
  /\ request' = [request EXCEPT ![a] = "none"]
  /\ has_registrations' = [has_registrations EXCEPT ![a] = FALSE]
  /\ answers' = [answers EXCEPT ![a] = << >>]
  /\ reg_tmr' = [reg_tmr EXCEPT ![a] = TRUE]

svd_r_register(a, m) ==
  /\ \/ r_register_provisional(a, m)
     \/ r_register_ok(a, m)
     \/ r_register_challenge(a, m)
     \/ r_register_failure(a, m)
  /\ voip_led' = AnyRegistered
  /\ UNCHANGED <<reg_tmrs_exist, svd_nua, root_runs, nua, r_shutdown>>

reg_timer_cb(a) ==
  /\ root_runs /\ reg_tmrs_exist /\ reg_tmr[a]
  /\ reg_tmr' = [reg_tmr EXCEPT ![a] = FALSE]
  /\ svd_register(a)
  /\ UNCHANGED <<registered, voip_led, reg_tmrs_exist, svd_nua, root_runs,
                 has_registrations, answers, nua, r_shutdown>>

\* svd_shutdown, from term_handler (SIGTERM, SIGINT) or svd_exec_shutdown.  A
\* second one finds svd->nua NULL, which nua_shutdown refuses.
svd_shutdown ==
  /\ root_runs
  /\ reg_tmrs_exist' = FALSE
  /\ svd_nua' = FALSE
  /\ nua' = IF svd_nua THEN "told" ELSE nua
  /\ UNCHANGED <<registered, op_reg, reg_tmr, voip_led, root_runs, request,
                 has_registrations, answers, r_shutdown>>

\* svd_r_shutdown: 100 also hangs up every channel (svd_bye, see SvdCalls);
\* 200 finds svd->nua NULL.  101 and 500 return before su_root_break.
Wrong_Breaks(status) == status = 200
Breaks(status) == status \in {100, 200}

svd_r_shutdown ==
  /\ root_runs
  /\ r_shutdown # << >>
  /\ \A a \in Account : answers[a] = << >>   \* they were queued before it
  /\ root_runs' = ~Breaks(Head(r_shutdown))
  /\ r_shutdown' = Tail(r_shutdown)
  /\ UNCHANGED <<registered, op_reg, reg_tmr, voip_led, reg_tmrs_exist,
                 svd_nua, request, has_registrations, answers, nua>>

-----------------------------------------------------------------------------
(***************************************************************************)
(* The registrars and the stack.                                           *)
(***************************************************************************)
Reports(a, class, next, has) ==
  /\ request[a] \in Method
  /\ nua \in {"running", "told"}   \* a stack that shuts down reports no more
  /\ Len(answers[a]) < MaxAnswers
  /\ answers' = [answers EXCEPT
                   ![a] = Append(@, [method |-> request[a], class |-> class])]
  /\ request' = [request EXCEPT ![a] = next]
  /\ has_registrations' = [has_registrations EXCEPT ![a] = has]
  /\ UNCHANGED <<programVars, nua, r_shutdown>>

Trying(a)   == Reports(a, "provisional", request[a], has_registrations[a])
Accepts(a)  == Reports(a, "ok", "none", request[a] = "register")
Fails(a)    == Reports(a, "failure", "none", FALSE)
\* Without a challenge that can be answered, a 401 ends the request.
Challenges(a) ==
  \E waits \in Waits :
    Reports(a, "challenge",
            CASE ~waits -> "none"
              [] waits /\ request[a] = "register"   -> "register_auth"
              [] waits /\ request[a] = "unregister" -> "unregister_auth",
            waits /\ has_registrations[a])

\* The stack registers again before the registration expires.
Refreshes(a) ==
  /\ nua = "running"
  /\ has_registrations[a] /\ request[a] = "none"
  /\ request' = [request EXCEPT ![a] = "register"]
  /\ UNCHANGED <<programVars, has_registrations, answers, nua, r_shutdown>>

\* The first report of nua_shutdown: with a handle to close it is 100.
ShutdownStarts ==
  /\ nua = "told"
  /\ \/ nua' = "closing" /\ r_shutdown' = <<100>>
     \/ /\ \A a \in Account : ~op_reg[a]
        /\ nua' = "closed" /\ r_shutdown' = <<200>>
  /\ UNCHANGED <<programVars, request, has_registrations, answers>>

ShutdownGoesOn ==
  /\ nua = "closing"
  /\ Len(r_shutdown) < 2
  /\ \/ nua' = "closing" /\ r_shutdown' = Append(r_shutdown, 101)
     \/ nua' = "closed" /\ \E status \in {200, 500} :
                             r_shutdown' = Append(r_shutdown, status)
  /\ UNCHANGED <<programVars, request, has_registrations, answers>>

Registrar(a) == Trying(a) \/ Accepts(a) \/ Fails(a) \/ Challenges(a)

-----------------------------------------------------------------------------
svd_nua_callback ==
  svd_r_shutdown \/ \E a \in Account, m \in Method : svd_r_register(a, m)

Next ==
  \/ svd_nua_callback
  \/ \E a \in Account : reg_timer_cb(a) \/ Registrar(a) \/ Refreshes(a)
  \/ svd_shutdown
  \/ ShutdownStarts \/ ShutdownGoesOn

Spec == Init /\ [][Next]_vars

\* The loop handles what is queued, a timer that runs expires, a request ends
\* (the stack answers 408 for a silent registrar), nua_shutdown starts.
Fairness ==
  /\ WF_vars(svd_r_shutdown)
  /\ WF_vars(ShutdownStarts)
  /\ \A a \in Account :
       /\ WF_vars(\E m \in Method : svd_r_register(a, m))
       /\ WF_vars(reg_timer_cb(a))
       /\ SF_vars(Accepts(a) \/ Fails(a) \/ Challenges(a))

FairSpec == Spec /\ Fairness

-----------------------------------------------------------------------------
(***************************************************************************)
(* Properties                                                              *)
(***************************************************************************)
\* The account has neither a request under way nor an answer to handle.
Quiet(a) == request[a] = "none" /\ answers[a] = << >>

\* svd_invite_to places calls with the accounts that are registered, and the
\* web page shows them: once an account is quiet the flag says what the
\* registrar answered last, also when a refresh failed.
RegistrationIsKnown ==
  \A a \in Account : Quiet(a) => registered[a] = has_registrations[a]

\* The VOIP LED is on when at least one account is registered (svd_led.c:6),
\* at the registrar and not only in the flags of svd.
LedIsTrue ==
  (\A a \in Account : Quiet(a))
    => (voip_led <=> \E a \in Account : has_registrations[a])

\* While a retry is due the account has no handle, so reg_timer_cb never
\* makes a second handle beside one that is in use.
RetryIsAlone ==
  \A a \in Account : reg_tmr[a] => ~op_reg[a] /\ Quiet(a)

\* An enabled account is never given up: it is registered, being registered
\* or going to be tried again, as long as svd is not shut down and every 401
\* can be answered (Waits = {TRUE}; a 401 that cannot is not tried again).
NeverGivenUp ==
  \A a \in Enabled :
    svd_nua => has_registrations[a] \/ reg_tmr[a] \/ ~Quiet(a)

\* A failed account does send another REGISTER, and a challenge is answered.
KeepsTrying ==
  \A a \in Enabled :
    /\ reg_tmr[a] ~> request[a] = "register" \/ ~svd_nua
    /\ request[a] = "register_auth"
         ~> request[a] # "register_auth" \/ ~root_runs \/ nua # "running"

\* svd does stop after svd_shutdown, whatever the registrars answer.
ShutdownStops == ~svd_nua ~> ~root_runs

(***************************************************************************)
(* What comments of the code say and the code does not do.                 *)
(***************************************************************************)
\* "100 - shutdown started", "200 - shutdown successful" (svd_ua.c:1167): the
\* loop that delivers the reports runs until the stack is closed.
LoopOutlivesShutdown == ~root_runs => nua = "closed"
=============================================================================
