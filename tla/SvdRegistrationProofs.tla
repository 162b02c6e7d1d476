------------------------ MODULE SvdRegistrationProofs ------------------------
(***************************************************************************)
(* What svd knows of its registrations, for any number of accounts and any *)
(* length of the queues.  The argument follows the last answer in the      *)
(* queue of an account: once no request is under way it says what the      *)
(* registrar thinks (Known) and that the account goes on (GoesOn), and an  *)
(* answer that ends the handle is always the last (EndIsLast).             *)
(***************************************************************************)
EXTENDS SvdRegistration, SequenceTheorems, TLAPS

Final(s) == s[Len(s)]

\* What svd believes after it has handled the queue is what is true.
Known(a) ==
  request[a] = "none" =>
    IF answers[a] = << >> THEN registered[a] = has_registrations[a]
    ELSE has_registrations[a]
           <=> Final(answers[a]) = [method |-> "register", class |-> "ok"]

Ends(ans) == ans.class = "failure"
               \/ ans = [method |-> "unregister", class |-> "ok"]

EndIsLast(a) ==
  \A n \in 1 .. Len(answers[a]) :
    Ends(answers[a][n])
      => n = Len(answers[a]) /\ request[a] = "none" /\ ~has_registrations[a]

NoHandle(a) ==
  /\ reg_tmr[a] => ~op_reg[a]
  /\ ~op_reg[a] => Quiet(a) /\ ~has_registrations[a]
  /\ op_reg[a] \/ reg_tmr[a] => a \in Enabled

\* The LED follows the flags.
LedFollows == voip_led <=> \E a \in Account : registered[a]

\* A 401 that can be answered always is, with Waits = {TRUE}.
GoesOn(a) ==
  a \in Enabled /\ Waits = {TRUE} /\ svd_nua /\ request[a] = "none" =>
    IF answers[a] = << >> THEN has_registrations[a] \/ reg_tmr[a]
    ELSE Final(answers[a]).class \in {"ok", "failure"}

AccountInv(a) == Known(a) /\ EndIsLast(a) /\ NoHandle(a) /\ GoesOn(a)

RegInv ==
  /\ TypeOK
  /\ LedFollows
  /\ \A a \in Account : AccountInv(a)

-----------------------------------------------------------------------------
\* How the queues change.
LEMMA TailFacts ==
  ASSUME NEW S, NEW s \in Seq(S), s # << >>
  PROVE  /\ Tail(s) \in Seq(S) /\ Head(s) \in S /\ Head(s) = s[1]
         /\ Len(s) \in Nat /\ Len(s) >= 1 /\ Len(Tail(s)) = Len(s) - 1
         /\ \A n \in 1 .. Len(Tail(s)) : Tail(s)[n] = s[n + 1]
         /\ Tail(s) # << >> => Final(Tail(s)) = Final(s)
         /\ Tail(s) = << >> => Head(s) = Final(s) /\ Len(s) = 1
<1>1. /\ Tail(s) \in Seq(S) /\ Head(s) \in S /\ Head(s) = s[1]
      /\ Len(s) \in Nat /\ Len(s) >= 1 /\ Len(Tail(s)) = Len(s) - 1
      /\ \A n \in 1 .. Len(Tail(s)) : Tail(s)[n] = s[n + 1]
  OBVIOUS
<1>2. ASSUME Tail(s) # << >>
      PROVE  Final(Tail(s)) = Final(s)
  <2>1. Len(Tail(s)) >= 1
    BY <1>1, <1>2
  <2>2. /\ Len(Tail(s)) \in 1 .. Len(Tail(s))
        /\ Len(Tail(s)) + 1 = Len(s)
    BY <1>1, <2>1
  <2>3. QED
    BY <1>1, <2>2 DEF Final
<1>3. ASSUME Tail(s) = << >>
      PROVE  Head(s) = Final(s) /\ Len(s) = 1
  <2>1. Len(Tail(s)) = 0
    BY <1>1, <1>3, EmptySeq
  <2>2. Len(s) = 1
    <3>1. Len(s) \in Nat /\ Len(Tail(s)) = Len(s) - 1
      BY <1>1
    <3>2. \A n \in Nat : 0 = n - 1 => n = 1
      OBVIOUS
    <3>3. QED
      BY <2>1, <3>1, <3>2, Zenon
  <2>3. QED
    BY <1>1, <2>2 DEF Final
<1>4. QED
  BY <1>1, <1>2, <1>3

LEMMA AppendFacts ==
  ASSUME NEW S, NEW s \in Seq(S), NEW e \in S
  PROVE  /\ Append(s, e) \in Seq(S) /\ Append(s, e) # << >>
         /\ Final(Append(s, e)) = e /\ Len(Append(s, e)) = Len(s) + 1
         /\ Len(s) \in Nat
         /\ \A n \in 1 .. Len(s) : Append(s, e)[n] = s[n]
BY DEF Final

-----------------------------------------------------------------------------
\* Every state has its types.
LEMMA InitType == Init => TypeOK
<1>1. /\ << >> \in Seq(Answer) /\ << >> \in Seq({100, 101, 200, 500})
      /\ "none" \in Request /\ "unregister" \in Request
  BY DEF Request, Method
<1>2. ASSUME Init
      PROVE  TypeOK
  <2>1. answers \in [Account -> Seq(Answer)]
    BY <1>1, <1>2 DEF Init
  <2>2. request \in [Account -> Request]
    BY <1>1, <1>2 DEF Init
  <2>3. /\ op_reg \in [Account -> BOOLEAN]
        /\ \A a \in Account : op_reg[a] => a \in Enabled
    <3>1. op_reg = [a \in Account |-> a \in Enabled]
      BY <1>2 DEF Init, Refreshed
    <3>2. op_reg \in [Account -> BOOLEAN]
      <4>1. \A a \in Account : (a \in Enabled) \in BOOLEAN
        OBVIOUS
      <4>2. QED
        BY <3>1, <4>1, Zenon
    <3>3. \A a \in Account : op_reg[a] => a \in Enabled
      BY <3>1, Zenon
    <3>4. QED
      BY <3>2, <3>3
  <2>4. QED
    BY <1>1, <1>2, <2>1, <2>2, <2>3 DEF Init, TypeOK
<1>3. QED
  BY <1>2

LEMMA HandlersKeepType ==
  ASSUME RegInv, NEW a \in Account, NEW m \in Method, svd_r_register(a, m)
  PROVE  TypeOK'
<1>1. TypeOK /\ NoHandle(a)
  BY DEF RegInv, AccountInv
<1>11. answers[a] # << >>
  BY DEF svd_r_register, r_register_provisional, r_register_ok,
     r_register_challenge, r_register_failure, Delivered
<1>12. /\ answers[a] \in Seq(Answer) /\ Tail(answers[a]) \in Seq(Answer)
       /\ << >> \in Seq(Answer)
  BY <1>1, <1>11, TailFacts DEF TypeOK
<1>13. a \in Enabled
  BY <1>1, <1>11 DEF NoHandle, Quiet
<1>2. \A yes \in BOOLEAN :
        NowRegistered(a, yes) => registered' \in [Account -> BOOLEAN]
  BY <1>1 DEF TypeOK, NowRegistered
<1>3. Taken(a) => answers' \in [Account -> Seq(Answer)]
  BY <1>1, <1>12 DEF TypeOK, Taken
<1>4. voip_led' \in BOOLEAN
  BY DEF svd_r_register, AnyRegistered
<1>5. UNCHANGED <<reg_tmrs_exist, svd_nua, root_runs, nua, r_shutdown>>
  BY DEF svd_r_register
<1>6. CASE r_register_provisional(a, m)
  BY <1>1, <1>2, <1>3, <1>4, <1>5, <1>6 DEF TypeOK, r_register_provisional
<1>7. CASE r_register_ok(a, m)
  <2>1. registered' \in [Account -> BOOLEAN]
    BY <1>2, <1>7 DEF r_register_ok
  <2>2. /\ op_reg' \in [Account -> BOOLEAN] /\ request' \in [Account -> Request]
        /\ \A b \in Account : op_reg'[b] => b \in Enabled
    <3>1. CASE svd_register(a)
      <4>1. CASE has_registrations[a]
        BY <1>1, <3>1, <4>1 DEF TypeOK, svd_register
      <4>2. CASE ~has_registrations[a]
        <5>1. /\ op_reg' = [op_reg EXCEPT ![a] = svd_nua]
              /\ \/ request' = [request EXCEPT ![a] = "register"]
                 \/ request' = request
          BY <3>1, <4>2 DEF svd_register
        <5>2. request' \in [Account -> Request]
          BY <1>1, <5>1 DEF TypeOK, Request, Method
        <5>3. QED
          BY <1>1, <1>13, <5>1, <5>2 DEF TypeOK
      <4>3. QED
        BY <4>1, <4>2
    <3>2. CASE UNCHANGED <<op_reg, request>>
      BY <1>1, <3>2 DEF TypeOK
    <3>3. QED
      BY <1>7, <3>1, <3>2 DEF r_register_ok
  <2>3. Taken(a) /\ UNCHANGED <<reg_tmr, has_registrations>>
    BY <1>7, Zenon DEF r_register_ok
  <2>4. QED
    BY <1>1, <1>3, <1>4, <1>5, <2>1, <2>2, <2>3 DEF TypeOK
<1>8. CASE r_register_challenge(a, m)
  <2>1. request' \in [Account -> Request]
    BY <1>1, <1>8 DEF TypeOK, r_register_challenge, Authenticated, Request, Method
  <2>2. QED
    BY <1>1, <1>2, <1>3, <1>4, <1>5, <1>8, <2>1
       DEF TypeOK, r_register_challenge
<1>9. CASE r_register_failure(a, m)
  BY <1>1, <1>2, <1>4, <1>5, <1>9, <1>12
     DEF TypeOK, r_register_failure, Request, Method
<1>10. QED
  BY <1>6, <1>7, <1>8, <1>9 DEF svd_r_register

-----------------------------------------------------------------------------
\* What a step leaves alone of an account stays true of it.
LEMMA SameAccount ==
  ASSUME NEW b, AccountInv(b), svd_nua' => svd_nua,
         registered'[b] = registered[b], op_reg'[b] = op_reg[b],
         reg_tmr'[b] = reg_tmr[b], request'[b] = request[b],
         has_registrations'[b] = has_registrations[b],
         answers'[b] = answers[b]
  PROVE  AccountInv(b)'
<1>1. Known(b)'
  BY DEF AccountInv, Known
<1>2. EndIsLast(b)'
  BY DEF AccountInv, EndIsLast
<1>3. NoHandle(b)'
  BY DEF AccountInv, NoHandle, Quiet
<1>4. GoesOn(b)'
  BY DEF AccountInv, GoesOn
<1>5. QED
  BY <1>1, <1>2, <1>3, <1>4 DEF AccountInv

\* An answer that leaves the handle in place and goes from the queue.
LEMMA AnswerTaken ==
  ASSUME RegInv, NEW a \in Account, NEW ans \in Answer,
         Delivered(a, ans), Taken(a), ~Ends(ans),
         registered'[a] \in BOOLEAN,
         registered'[a] <=> ans = [method |-> "register", class |-> "ok"],
         \/ request'[a] = request[a]
         \/ request'[a] # "none" /\ request[a] # "none",
         UNCHANGED <<op_reg, reg_tmr, has_registrations, svd_nua>>
  PROVE  AccountInv(a)'
<1>1. /\ answers[a] \in Seq(Answer) /\ answers[a] # << >>
      /\ Head(answers[a]) = ans /\ answers'[a] = Tail(answers[a])
  BY DEF RegInv, TypeOK, Delivered, Taken
<1>2. AccountInv(a)
  BY DEF RegInv
<1>3. request'[a] = "none" => request[a] = "none"
  OBVIOUS
<1>4. Tail(answers[a]) = << >> => ans = Final(answers[a])
  BY <1>1, TailFacts
<1>5. Tail(answers[a]) # << >> => Final(Tail(answers[a])) = Final(answers[a])
  BY <1>1, TailFacts
<1>6. has_registrations[a] \in BOOLEAN
  BY DEF RegInv, TypeOK
<1>7. Known(a)'
  BY <1>1, <1>2, <1>3, <1>4, <1>5, <1>6 DEF AccountInv, Known
<1>8. EndIsLast(a)'
  <2>1. SUFFICES ASSUME NEW n \in 1 .. Len(Tail(answers[a])),
                        Ends(Tail(answers[a])[n])
                 PROVE  /\ n = Len(Tail(answers[a]))
                        /\ request'[a] = "none" /\ ~has_registrations[a]
    BY <1>1 DEF EndIsLast
  <2>2. /\ Tail(answers[a])[n] = answers[a][n + 1]
        /\ n + 1 \in 1 .. Len(answers[a])
        /\ Len(Tail(answers[a])) = Len(answers[a]) - 1
        /\ Len(answers[a]) \in Nat
    BY <1>1, TailFacts
  <2>3. /\ n + 1 = Len(answers[a])
        /\ request[a] = "none" /\ ~has_registrations[a]
    BY <1>2, <2>1, <2>2 DEF AccountInv, EndIsLast
  <2>4. QED
    BY <2>2, <2>3
<1>9. NoHandle(a)'
  BY <1>1, <1>2 DEF AccountInv, NoHandle, Quiet
<1>10. GoesOn(a)'
  <2>1. SUFFICES ASSUME a \in Enabled, Waits = {TRUE}, svd_nua,
                        request[a] = "none"
                 PROVE  IF Tail(answers[a]) = << >>
                          THEN has_registrations[a] \/ reg_tmr[a]
                          ELSE Final(Tail(answers[a])).class
                                 \in {"ok", "failure"}
    BY <1>1, <1>3 DEF GoesOn
  <2>2. Final(answers[a]).class \in {"ok", "failure"}
    BY <1>1, <1>2, <2>1 DEF AccountInv, GoesOn
  <2>3. CASE Tail(answers[a]) = << >>
    <3>1. ans.class \in {"ok", "failure"} /\ ans \in Answer
      BY <1>4, <2>2, <2>3
    <3>2. ans = [method |-> "register", class |-> "ok"]
      BY <3>1 DEF Ends, Answer, Method
    <3>3. QED
      BY <1>1, <1>2, <1>4, <2>1, <2>3, <3>2 DEF AccountInv, Known
  <2>4. CASE Tail(answers[a]) # << >>
    BY <1>5, <2>2, <2>4
  <2>5. QED
    BY <2>3, <2>4
<1>11. QED
  BY <1>7, <1>8, <1>9, <1>10 DEF AccountInv

-----------------------------------------------------------------------------
\* A 200 for the unregistration: the account registers, or stops for good.
LEMMA UnregisterOk ==
  ASSUME RegInv, NEW a \in Account, r_register_ok(a, "unregister"),
         UNCHANGED svd_nua
  PROVE  AccountInv(a)'
<1> DEFINE ans == [method |-> "unregister", class |-> "ok"]
<1>1. /\ answers[a] \in Seq(Answer) /\ answers[a] # << >>
      /\ Head(answers[a]) = ans /\ answers'[a] = Tail(answers[a])
      /\ registered'[a] = FALSE
      /\ reg_tmr' = reg_tmr /\ has_registrations' = has_registrations
      /\ svd_register(a)
  BY DEF RegInv, TypeOK, r_register_ok, Delivered, Taken, NowRegistered
<1>2. AccountInv(a)
  BY DEF RegInv
<1>3. /\ 1 \in 1 .. Len(answers[a]) /\ answers[a][1] = ans /\ Ends(ans)
  <2>1. Len(answers[a]) \in Nat /\ Len(answers[a]) >= 1
    BY <1>1, TailFacts
  <2>2. answers[a][1] = Head(answers[a])
    BY <1>1, TailFacts
  <2>3. QED
    BY <1>1, <2>1, <2>2 DEF Ends
<1>4. 1 = Len(answers[a]) /\ request[a] = "none" /\ ~has_registrations[a]
  BY <1>2, <1>3 DEF AccountInv, EndIsLast
<1>5. answers'[a] = << >>
  <2>1. Len(Tail(answers[a])) = 0 /\ Tail(answers[a]) \in Seq(Answer)
    BY <1>1, <1>4, TailFacts
  <2>2. QED
    BY <1>1, <2>1, EmptySeq
<1>6. op_reg[a] /\ ~reg_tmr[a] /\ a \in Enabled
  BY <1>1, <1>2 DEF AccountInv, NoHandle, Quiet
<1>7. /\ op_reg'[a] = svd_nua
      /\ request'[a] = IF svd_nua THEN "register" ELSE "none"
  BY <1>1, <1>4 DEF RegInv, TypeOK, svd_register
<1>8. Known(a)'
  BY <1>1, <1>4, <1>5, <1>7 DEF Known, RegInv, TypeOK
<1>9. EndIsLast(a)'
  BY <1>5 DEF EndIsLast
<1>10. NoHandle(a)'
  BY <1>1, <1>4, <1>5, <1>6, <1>7 DEF NoHandle, Quiet
<1>11. GoesOn(a)'
  BY <1>7 DEF GoesOn
<1>12. QED
  BY <1>8, <1>9, <1>10, <1>11 DEF AccountInv

LEMMA HandlerKeepsAccount ==
  ASSUME RegInv, NEW a \in Account, NEW m \in Method, svd_r_register(a, m)
  PROVE  AccountInv(a)'
<1>1. TypeOK /\ svd_nua' = svd_nua
  BY DEF RegInv, svd_r_register
<1>2. \A class \in Class : [method |-> m, class |-> class] \in Answer
  BY DEF Answer
<1>3. CASE r_register_provisional(a, m)
  <2> DEFINE ans == [method |-> m, class |-> "provisional"]
  <2>1. ans \in Answer /\ ~Ends(ans)
        /\ ans # [method |-> "register", class |-> "ok"]
    BY <1>2 DEF Ends, Class
  <2>2. registered'[a] = FALSE /\ Delivered(a, ans) /\ Taken(a)
        /\ UNCHANGED <<op_reg, reg_tmr, has_registrations>>
    BY <1>1, <1>3 DEF TypeOK, r_register_provisional, NowRegistered
  <2>3. \/ request'[a] = request[a]
        \/ request'[a] # "none" /\ request[a] # "none"
    BY <1>1, <1>3 DEF TypeOK, r_register_provisional
  <2>4. QED
    BY <1>1, <2>1, <2>2, <2>3, AnswerTaken
<1>4. CASE r_register_ok(a, m) /\ m = "register"
  <2> DEFINE ans == [method |-> "register", class |-> "ok"]
  <2>1. ans \in Answer /\ ~Ends(ans)
    BY <1>2, <1>4 DEF Ends, Class
  <2>2. registered'[a] = TRUE /\ Delivered(a, ans) /\ Taken(a)
        /\ UNCHANGED <<op_reg, request, reg_tmr, has_registrations>>
    BY <1>1, <1>4 DEF TypeOK, r_register_ok, NowRegistered
  <2>3. QED
    BY <1>1, <2>1, <2>2, AnswerTaken
<1>5. CASE r_register_ok(a, m) /\ m = "unregister"
  BY <1>1, <1>5, UnregisterOk
<1>6. CASE r_register_challenge(a, m)
  <2> DEFINE ans == [method |-> m, class |-> "challenge"]
  <2>1. ans \in Answer /\ ~Ends(ans)
        /\ ans # [method |-> "register", class |-> "ok"]
    BY <1>2 DEF Ends, Class
  <2>2. registered'[a] = FALSE /\ Delivered(a, ans) /\ Taken(a)
        /\ UNCHANGED <<op_reg, reg_tmr, has_registrations>>
    BY <1>1, <1>6 DEF TypeOK, r_register_challenge, NowRegistered
  <2>3. \/ request'[a] = request[a]
        \/ request'[a] # "none" /\ request[a] # "none"
    BY <1>1, <1>6 DEF TypeOK, r_register_challenge, Authenticated
  <2>4. QED
    BY <1>1, <2>1, <2>2, <2>3, AnswerTaken
<1>7. CASE r_register_failure(a, m)
  <2>1. a \in Enabled
    BY <1>7 DEF RegInv, AccountInv, NoHandle, Quiet, r_register_failure,
       Delivered
  <2>2. /\ registered'[a] = FALSE /\ op_reg'[a] = FALSE
        /\ request'[a] = "none" /\ has_registrations'[a] = FALSE
        /\ answers'[a] = << >> /\ reg_tmr'[a] = TRUE
    BY <1>1, <1>7 DEF TypeOK, r_register_failure, NowRegistered
  <2>3. Known(a)' /\ NoHandle(a)' /\ GoesOn(a)'
    BY <2>1, <2>2 DEF Known, NoHandle, Quiet, GoesOn
  <2>4. EndIsLast(a)'
    BY <2>2 DEF EndIsLast
  <2>5. QED
    BY <2>3, <2>4 DEF AccountInv
<1>8. QED
  BY <1>3, <1>4, <1>5, <1>6, <1>7 DEF svd_r_register, r_register_ok, Method

LEMMA HandlersKeepInv ==
  ASSUME RegInv, NEW a \in Account, NEW m \in Method, svd_r_register(a, m)
  PROVE  RegInv'
<1>1. TypeOK'
  BY HandlersKeepType
<1>2. LedFollows'
  BY DEF svd_r_register, AnyRegistered, LedFollows
<1>3. ASSUME NEW b \in Account, b # a
      PROVE  AccountInv(b)'
  <2>1. /\ registered'[b] = registered[b] /\ op_reg'[b] = op_reg[b]
        /\ reg_tmr'[b] = reg_tmr[b] /\ request'[b] = request[b]
        /\ has_registrations'[b] = has_registrations[b]
        /\ answers'[b] = answers[b] /\ svd_nua' = svd_nua
    BY <1>3 DEF RegInv, TypeOK, svd_r_register, r_register_provisional,
       r_register_ok, r_register_challenge, r_register_failure,
       NowRegistered, Taken, svd_register, Authenticated
  <2>2. QED
    BY <1>3, <2>1, SameAccount DEF RegInv
<1>4. QED
  BY <1>1, <1>2, <1>3, HandlerKeepsAccount DEF RegInv

-----------------------------------------------------------------------------
\* The steps of the stack.
LEMMA ReportKeepsInv ==
  ASSUME RegInv, NEW a \in Account, NEW class \in Class, NEW next \in Request,
         NEW has \in BOOLEAN, Reports(a, class, next, has),
         next = "none" => (has <=> class = "ok" /\ request[a] = "register"),
         class = "failure" => next = "none",
         class = "ok" => next = "none",
         Waits = {TRUE} /\ next = "none" => class \in {"ok", "failure"}
  PROVE  RegInv'
<1> DEFINE e == [method |-> request[a], class |-> class]
<1>1. /\ request[a] \in Method /\ e \in Answer /\ request[a] # "none"
      /\ answers[a] \in Seq(Answer) /\ answers'[a] = Append(answers[a], e)
      /\ request'[a] = next /\ has_registrations'[a] = has
      /\ UNCHANGED programVars
  BY DEF Reports, RegInv, TypeOK, Answer, Method
<1>2. AccountInv(a)
  BY DEF RegInv
<1>3. /\ Append(answers[a], e) \in Seq(Answer) /\ Append(answers[a], e) # << >>
      /\ Final(Append(answers[a], e)) = e
  BY <1>1, AppendFacts
<1>4. TypeOK'
  BY <1>1, <1>3 DEF Reports, RegInv, TypeOK, programVars
<1>5. Known(a)'
  <2>1. SUFFICES ASSUME next = "none"
                 PROVE  has <=> e = [method |-> "register", class |-> "ok"]
    BY <1>1, <1>3 DEF Known
  <2>2. QED
    BY <2>1
<1>6. EndIsLast(a)'
  <2>1. SUFFICES ASSUME NEW n \in 1 .. Len(Append(answers[a], e)),
                        Ends(Append(answers[a], e)[n])
                 PROVE  /\ n = Len(Append(answers[a], e))
                        /\ next = "none" /\ ~has
    BY <1>1 DEF EndIsLast
  <2>2. /\ Len(Append(answers[a], e)) = Len(answers[a]) + 1
        /\ Len(answers[a]) \in Nat
        /\ \A k \in 1 .. Len(answers[a]) :
             Append(answers[a], e)[k] = answers[a][k]
    BY <1>1, AppendFacts
  <2>3. n \notin 1 .. Len(answers[a])
    BY <1>1, <1>2, <2>1, <2>2 DEF AccountInv, EndIsLast
  <2>4. n = Len(Append(answers[a], e))
    BY <2>2, <2>3
  <2>5. Ends(e)
    BY <1>3, <2>1, <2>4 DEF Final
  <2>6. QED
    BY <2>4, <2>5 DEF Ends
<1>7. NoHandle(a)'
  BY <1>1, <1>2 DEF AccountInv, NoHandle, Quiet, programVars
<1>8. GoesOn(a)'
  BY <1>1, <1>3 DEF GoesOn
<1>9. ASSUME NEW b \in Account, b # a
      PROVE  AccountInv(b)'
  <2>1. /\ registered'[b] = registered[b] /\ op_reg'[b] = op_reg[b]
        /\ reg_tmr'[b] = reg_tmr[b] /\ request'[b] = request[b]
        /\ has_registrations'[b] = has_registrations[b]
        /\ answers'[b] = answers[b] /\ svd_nua' = svd_nua
    BY <1>9 DEF Reports, RegInv, TypeOK, programVars
  <2>2. QED
    BY <1>9, <2>1, SameAccount DEF RegInv
<1>10. LedFollows'
  BY <1>1 DEF RegInv, LedFollows, programVars
<1>11. QED
  BY <1>4, <1>5, <1>6, <1>7, <1>8, <1>9, <1>10 DEF RegInv, AccountInv

LEMMA RegistrarKeepsInv ==
  ASSUME RegInv, NEW a \in Account, Registrar(a)
  PROVE  RegInv'
<1>1. /\ request[a] \in Request /\ has_registrations[a] \in BOOLEAN
      /\ request[a] \in Method
  BY DEF RegInv, TypeOK, Registrar, Trying, Accepts, Fails, Challenges, Reports
<1>2. "none" \in Request /\ "none" \notin Method
  BY DEF Request, Method
<1>3. CASE Trying(a)
  BY <1>1, <1>2, <1>3, ReportKeepsInv DEF Trying, Class
<1>4. CASE Accepts(a)
  <2>1. (request[a] = "register") \in BOOLEAN
    OBVIOUS
  <2>2. Reports(a, "ok", "none", request[a] = "register")
    BY <1>4 DEF Accepts
  <2>3. QED
    BY <1>2, <2>1, <2>2, ReportKeepsInv DEF Class
<1>5. CASE Fails(a)
  BY <1>2, <1>5, ReportKeepsInv DEF Fails, Class
<1>6. CASE Challenges(a)
  <2>1. PICK waits \in Waits :
          Reports(a, "challenge",
                  CASE ~waits -> "none"
                    [] waits /\ request[a] = "register"   -> "register_auth"
                    [] waits /\ request[a] = "unregister" -> "unregister_auth",
                  waits /\ has_registrations[a])
    BY <1>6 DEF Challenges
  <2>2. waits \in BOOLEAN
    BY RegAssumption
  <2>3. CASE ~waits
    <3>1. Reports(a, "challenge", "none", FALSE)
      BY <2>1, <2>3
    <3>2. Waits # {TRUE}
      <4>1. waits = FALSE
        BY <2>2, <2>3
      <4>2. QED
        BY <4>1
    <3>3. QED
      BY <1>2, <3>1, <3>2, ReportKeepsInv DEF Class
  <2>4. CASE waits
    <3>1. PICK next \in {"register_auth", "unregister_auth"} :
            Reports(a, "challenge", next, has_registrations[a])
      BY <1>1, <2>1, <2>4 DEF Method
    <3>2. next \in Request /\ next # "none"
      BY <3>1 DEF Request
    <3>3. QED
      BY <1>1, <3>1, <3>2, ReportKeepsInv DEF Class
  <2>5. QED
    BY <2>3, <2>4
<1>7. QED
  BY <1>3, <1>4, <1>5, <1>6 DEF Registrar

-----------------------------------------------------------------------------
\* The timer, the refresh and the shutdown.
LEMMA TimerKeepsInv ==
  ASSUME RegInv, NEW a \in Account, reg_timer_cb(a)
  PROVE  RegInv'
<1>1. /\ TypeOK /\ AccountInv(a) /\ reg_tmr[a]
      /\ UNCHANGED <<registered, voip_led, reg_tmrs_exist, svd_nua, root_runs,
                     has_registrations, answers, nua, r_shutdown>>
  BY DEF RegInv, reg_timer_cb
<1>2. /\ ~op_reg[a] /\ request[a] = "none" /\ answers[a] = << >>
      /\ ~has_registrations[a] /\ a \in Enabled
  BY <1>1 DEF AccountInv, NoHandle, Quiet
<1>3. /\ op_reg' = [op_reg EXCEPT ![a] = svd_nua]
      /\ request' = IF svd_nua THEN [request EXCEPT ![a] = "register"]
                    ELSE request
      /\ reg_tmr' = [reg_tmr EXCEPT ![a] = FALSE]
  BY <1>2 DEF reg_timer_cb, svd_register
<1>4. TypeOK'
  BY <1>1, <1>2, <1>3 DEF TypeOK, Request, Method
<1>5. /\ op_reg'[a] = svd_nua /\ reg_tmr'[a] = FALSE
      /\ request'[a] = IF svd_nua THEN "register" ELSE "none"
  BY <1>1, <1>2, <1>3 DEF TypeOK
<1>6. Known(a)' /\ NoHandle(a)' /\ GoesOn(a)'
  BY <1>1, <1>2, <1>5 DEF AccountInv, Known, NoHandle, Quiet, GoesOn
<1>7. EndIsLast(a)'
  BY <1>1, <1>2 DEF EndIsLast
<1>8. ASSUME NEW b \in Account, b # a
      PROVE  AccountInv(b)'
  <2>1. /\ registered'[b] = registered[b] /\ op_reg'[b] = op_reg[b]
        /\ reg_tmr'[b] = reg_tmr[b] /\ request'[b] = request[b]
        /\ has_registrations'[b] = has_registrations[b]
        /\ answers'[b] = answers[b] /\ svd_nua' = svd_nua
    BY <1>1, <1>3, <1>8 DEF TypeOK
  <2>2. QED
    BY <1>8, <2>1, SameAccount DEF RegInv
<1>9. LedFollows'
  BY <1>1 DEF RegInv, LedFollows
<1>10. QED
  BY <1>4, <1>6, <1>7, <1>8, <1>9 DEF RegInv, AccountInv

LEMMA RefreshKeepsInv ==
  ASSUME RegInv, NEW a \in Account, Refreshes(a)
  PROVE  RegInv'
<1>1. /\ TypeOK /\ AccountInv(a)
      /\ has_registrations[a] /\ request[a] = "none"
      /\ request' = [request EXCEPT ![a] = "register"]
      /\ UNCHANGED <<programVars, has_registrations, answers, nua, r_shutdown>>
  BY DEF RegInv, Refreshes
<1>2. TypeOK'
  BY <1>1 DEF TypeOK, programVars, Request, Method
<1>3. request'[a] = "register"
  BY <1>1 DEF TypeOK
<1>4. Known(a)' /\ NoHandle(a)' /\ GoesOn(a)'
  BY <1>1, <1>3 DEF AccountInv, Known, NoHandle, GoesOn, programVars
<1>5. EndIsLast(a)'
  BY <1>1 DEF AccountInv, EndIsLast
<1>6. ASSUME NEW b \in Account, b # a
      PROVE  AccountInv(b)'
  <2>1. /\ registered'[b] = registered[b] /\ op_reg'[b] = op_reg[b]
        /\ reg_tmr'[b] = reg_tmr[b] /\ request'[b] = request[b]
        /\ has_registrations'[b] = has_registrations[b]
        /\ answers'[b] = answers[b] /\ svd_nua' = svd_nua
    BY <1>1, <1>6 DEF TypeOK, programVars
  <2>2. QED
    BY <1>6, <2>1, SameAccount DEF RegInv
<1>7. LedFollows'
  BY <1>1 DEF RegInv, LedFollows, programVars
<1>8. QED
  BY <1>2, <1>4, <1>5, <1>6, <1>7 DEF RegInv, AccountInv

LEMMA ShutdownKeepsInv ==
  ASSUME RegInv,
         svd_shutdown \/ svd_r_shutdown \/ ShutdownStarts \/ ShutdownGoesOn
  PROVE  RegInv'
<1>1. /\ svd_nua' => svd_nua
      /\ UNCHANGED <<registered, op_reg, reg_tmr, voip_led, request,
                     has_registrations, answers>>
  BY DEF svd_shutdown, svd_r_shutdown, ShutdownStarts, ShutdownGoesOn,
     programVars
<1>2. TypeOK'
  <2>1. TypeOK
    BY DEF RegInv
  <2>2. CASE svd_shutdown
    BY <2>1, <2>2 DEF svd_shutdown, TypeOK
  <2>3. CASE svd_r_shutdown
    <3>1. Tail(r_shutdown) \in Seq({100, 101, 200, 500})
      BY <2>1, <2>3, TailFacts DEF svd_r_shutdown, TypeOK
    <3>2. QED
      BY <2>1, <2>3, <3>1 DEF svd_r_shutdown, TypeOK
  <2>4. CASE ShutdownStarts
    <3>1. <<100>> \in Seq({100, 101, 200, 500})
            /\ <<200>> \in Seq({100, 101, 200, 500})
      OBVIOUS
    <3>2. /\ nua' \in {"running", "told", "closing", "closed"}
          /\ r_shutdown' \in Seq({100, 101, 200, 500})
      <4>1. \/ nua' = "closing" /\ r_shutdown' = <<100>>
            \/ nua' = "closed" /\ r_shutdown' = <<200>>
        BY <2>4, Zenon DEF ShutdownStarts
      <4>2. CASE nua' = "closing" /\ r_shutdown' = <<100>>
        BY <3>1, <4>2
      <4>3. CASE nua' = "closed" /\ r_shutdown' = <<200>>
        BY <3>1, <4>3
      <4>4. QED
        BY <4>1, <4>2, <4>3
    <3>3. UNCHANGED programVars
      BY <2>4, Zenon DEF ShutdownStarts
    <3>4. QED
      BY <1>1, <2>1, <3>2, <3>3 DEF TypeOK, programVars
  <2>5. CASE ShutdownGoesOn
    <3>1. \A status \in {100, 101, 200, 500} :
            Append(r_shutdown, status) \in Seq({100, 101, 200, 500})
      BY <2>1, AppendFacts DEF TypeOK
    <3>2. /\ nua' \in {"running", "told", "closing", "closed"}
          /\ r_shutdown' \in Seq({100, 101, 200, 500})
      BY <2>5, <3>1 DEF ShutdownGoesOn
    <3>3. QED
      BY <1>1, <2>1, <2>5, <3>2 DEF ShutdownGoesOn, TypeOK, programVars
  <2>6. QED
    BY <2>2, <2>3, <2>4, <2>5
<1>3. \A b \in Account : AccountInv(b)'
  BY <1>1, SameAccount DEF RegInv
<1>4. LedFollows'
  BY <1>1 DEF RegInv, LedFollows
<1>5. QED
  BY <1>2, <1>3, <1>4 DEF RegInv

-----------------------------------------------------------------------------
\* RegInv is inductive.
LEMMA RegInvariant == Spec => []RegInv
<1>1. Init => RegInv
  <2>1. SUFFICES ASSUME Init
                 PROVE  RegInv
    OBVIOUS
  <2>2. TypeOK
    BY <2>1, InitType
  <2>3. LedFollows
    BY <2>1 DEF Init, LedFollows
  <2>4. ASSUME NEW a \in Account
        PROVE  AccountInv(a)
    <3>1. /\ registered[a] = FALSE /\ reg_tmr[a] = FALSE
          /\ op_reg[a] <=> a \in Enabled
          /\ request[a] = IF a \in Enabled THEN "unregister" ELSE "none"
          /\ has_registrations[a] = FALSE /\ answers[a] = << >>
      BY <2>1, <2>4 DEF Init, Refreshed
    <3>2. Known(a) /\ NoHandle(a)
      BY <3>1 DEF Known, NoHandle, Quiet
    <3>3. EndIsLast(a)
      BY <3>1 DEF EndIsLast
    <3>4. GoesOn(a)
      BY <3>1 DEF GoesOn
    <3>5. QED
      BY <3>2, <3>3, <3>4 DEF AccountInv
  <2>5. QED
    BY <2>2, <2>3, <2>4 DEF RegInv
<1>2. RegInv /\ [Next]_vars => RegInv'
  <2>1. SUFFICES ASSUME RegInv, [Next]_vars
                 PROVE  RegInv'
    OBVIOUS
  <2>2. CASE \E a \in Account, m \in Method : svd_r_register(a, m)
    BY <2>1, <2>2, HandlersKeepInv
  <2>3. CASE \E a \in Account : reg_timer_cb(a) \/ Registrar(a) \/ Refreshes(a)
    BY <2>1, <2>3, TimerKeepsInv, RegistrarKeepsInv, RefreshKeepsInv
  <2>4. CASE svd_shutdown \/ svd_r_shutdown \/ ShutdownStarts \/ ShutdownGoesOn
    BY <2>1, <2>4, ShutdownKeepsInv
  <2>5. CASE UNCHANGED vars
    <3>1. TypeOK'
      BY <2>1, <2>5 DEF RegInv, TypeOK, vars, programVars, stackVars
    <3>2. \A b \in Account : AccountInv(b)'
      BY <2>1, <2>5, SameAccount DEF RegInv, vars, programVars, stackVars
    <3>3. LedFollows'
      BY <2>1, <2>5 DEF RegInv, LedFollows, vars, programVars
    <3>4. QED
      BY <3>1, <3>2, <3>3 DEF RegInv
  <2>6. QED
    BY <2>1, <2>2, <2>3, <2>4, <2>5 DEF Next, svd_nua_callback
<1>3. QED
  BY <1>1, <1>2, PTL DEF Spec

\* Only an enabled account has a handle, and all state keeps its type.
THEOREM TypeCorrect == Spec => []TypeOK
<1>1. RegInv => TypeOK
  BY DEF RegInv
<1>2. QED
  BY <1>1, RegInvariant, PTL

\* The flag with which svd_invite_to chooses an account is what the registrar
\* answered last.
THEOREM FlagsAreKnown == Spec => []RegistrationIsKnown
<1>1. RegInv => RegistrationIsKnown
  BY DEF RegInv, AccountInv, Known, RegistrationIsKnown, Quiet
<1>2. QED
  BY <1>1, RegInvariant, PTL

\* The VOIP LED tells whether any account is registered at its registrar.
THEOREM LedTellsTheTruth == Spec => []LedIsTrue
<1>1. RegInv => LedIsTrue
  BY DEF RegInv, AccountInv, Known, LedFollows, LedIsTrue, Quiet
<1>2. QED
  BY <1>1, RegInvariant, PTL

\* The retry timer never runs beside a handle that is in use.
THEOREM RetriesAreAlone == Spec => []RetryIsAlone
<1>1. RegInv => RetryIsAlone
  BY DEF RegInv, AccountInv, NoHandle, RetryIsAlone
<1>2. QED
  BY <1>1, RegInvariant, PTL

\* When every 401 can be answered no enabled account is given up.
THEOREM NoAccountGivenUp ==
  ASSUME Waits = {TRUE}
  PROVE  Spec => []NeverGivenUp
<1>1. RegInv => NeverGivenUp
  BY RegAssumption
     DEF RegInv, AccountInv, GoesOn, NeverGivenUp, Quiet
<1>2. QED
  BY <1>1, RegInvariant, PTL
==============================================================================
