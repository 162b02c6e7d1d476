------------------------- MODULE SvdLifecycleProofs -------------------------
(***************************************************************************)
(* Theorems on the start and the end of the program, and on the answers of *)
(* the interface:                                                          *)
(*   EverReleasedOnce    what is released was held,                        *)
(*   DependantsEverFirst nothing is released before what needs it,         *)
(*   NothingEverLeft     a program that ends has released what it got,     *)
(*   AnswersEverLists    the answers in JSON are lists,                    *)
(* each with the exceptions that its property names, where the code breaks *)
(* the rule.                                                               *)
(* The first three follow from LifeInv, which relates what is held to the  *)
(* releases still to come: the list of releases is a tail of the one that  *)
(* unwinds everything, perhaps with some of svd_shutdown before it, and    *)
(* what is held has its place in that list.                                *)
(***************************************************************************)
EXTENDS SvdLifecycle, SequenceTheorems, WellFoundedInduction, NaturalsInduction, TLAPS

-----------------------------------------------------------------------------
(* What there is to hold, and in which step of the unwinding it goes.      *)

AbParts == {One("ab"), One("chans"), One("devs"), One("dev_fd")}
             \union Each("chan_fd", NumChans)
ChanKind == {"dtmf_tmr", "local_wait", "remote_wait", "rtp_sfd", "ctx"}
ChanParts == ChanKind \X Chan
SvdParts == {One("svd"), One("root"), One("dev_wait"), One("nua")}
              \union Vectors \union Timers \union ChanParts
IfParts == {One("ifd"), One("if_name"), One("if_wait")}
Parts == AbParts \union SvdParts \union IfParts

\* What the end of the program leaves, and what it releases too late
Kept == {One("nua"), One("stdin"), One("fw_file")}
Excepted == {<<One("nua"), One("root")>>, <<One("if_wait"), One("ifd")>>}

\* The place in UnwindFromIf where d goes
Place(d) ==
  LET N == NumChans IN
  CASE d[1] = "ifd"                      -> 1
    [] d[1] = "if_name"                  -> 2
    [] d[1] = "dtmf_tmr"                 -> 3 + 5 * d[2]
    [] d[1] = "local_wait"               -> 4 + 5 * d[2]
    [] d[1] = "remote_wait"              -> 5 + 5 * d[2]
    [] d[1] = "rtp_sfd"                  -> 6 + 5 * d[2]
    [] d[1] = "ctx"                      -> 7 + 5 * d[2]
    [] d[1] = "reg_tmr"                  -> 5 * N + 3
    [] d[1] \in {"root", "dev_wait", "if_wait"} -> 5 * N + 4
    [] d[1] \in {"sip_account", "dial_plan"}  -> 5 * N + 5
    [] d[1] = "svd"                      -> 5 * N + 6
    [] d[1] = "chan_fd"                  -> 5 * N + 9 + d[2]
    [] d[1] = "chans"                    -> 6 * N + 9
    [] d[1] = "dev_fd"                   -> 6 * N + 10
    [] d[1] = "devs"                     -> 6 * N + 11
    [] d[1] = "ab"                       -> 6 * N + 12

\* The operation at place p of UnwindFromIf is op.
OpAt(p, op) ==
  LET N == NumChans IN
  \/ p = 1 /\ op = Do("close_ifd")
  \/ p = 2 /\ op = Free("if_name", 0)
  \/ \E c \in Chan : \/ p = 3 + 5 * c /\ op = Free("dtmf_tmr", c)
                     \/ p = 4 + 5 * c /\ op = Free("local_wait", c)
                     \/ p = 5 + 5 * c /\ op = Free("remote_wait", c)
                     \/ p = 6 + 5 * c /\ op = Free("rtp_sfd", c)
                     \/ p = 7 + 5 * c /\ op = Free("ctx", c)
  \/ p = 5 * N + 3 /\ op = Do("svd_shutdown")
  \/ p = 5 * N + 4 /\ op = Free("root", 0)
  \/ p = 5 * N + 5 /\ op = Do("su_home_deinit")
  \/ p = 5 * N + 6 /\ op = Free("svd", 0)
  \/ p = 5 * N + 7 /\ op = Free("dial_plan", 0)
  \/ p = 5 * N + 8 /\ op = Free("sip_account", 0)
  \/ \E c \in Chan : p = 5 * N + 9 + c /\ op = Free("chan_fd", c)
  \/ p = 6 * N + 9 /\ op = Free("chans", 0)
  \/ p = 6 * N + 10 /\ op = Free("dev_fd", 0)
  \/ p = 6 * N + 11 /\ op = Free("devs", 0)
  \/ p = 6 * N + 12 /\ op = Free("ab", 0)

IsSeq(s) == \E S : s \in Seq(S)

\* s is UnwindFromIf without its first steps.
IsTail(s, first) ==
  /\ IsSeq(s) /\ Len(s) = 6 * NumChans + 12 - first
  /\ \A i \in 1 .. Len(s) : OpAt(i + first, s[i])

-----------------------------------------------------------------------------
(* The lists of releases                                                   *)

LEMMA Concat ==
  ASSUME NEW s, NEW t, IsSeq(s), IsSeq(t)
  PROVE  /\ IsSeq(s \o t) /\ Len(s) \in Nat /\ Len(t) \in Nat
         /\ Len(s \o t) = Len(s) + Len(t)
         /\ \A i \in 1 .. Len(s) : (s \o t)[i] = s[i]
         /\ \A i \in 1 .. Len(t) : (s \o t)[Len(s) + i] = t[i]
         /\ \A i \in 1 .. Len(s) + Len(t) :
              (s \o t)[i] = IF i <= Len(s) THEN s[i] ELSE t[i - Len(s)]
<1>1. PICK S, T : s \in Seq(S) /\ t \in Seq(T)
  BY DEF IsSeq
<1>2. s \in Seq(S \union T) /\ t \in Seq(S \union T)
  BY <1>1
<1>3. QED
  BY <1>2, ConcatProperties DEF IsSeq

LEMMA Tabulated ==
  ASSUME NEW n \in Nat, NEW S, NEW f \in [1 .. n -> S]
  PROVE  IsSeq(f) /\ Len(f) = n
<1>1. f \in Seq(S)
  BY SeqDef
<1>2. Len(f) \in Nat /\ 1 .. Len(f) = 1 .. n
  BY <1>1, LenProperties
<1>3. QED
  BY <1>1, <1>2 DEF IsSeq

LEMMA FiveEach ==
  ASSUME NEW N \in Nat, NEW k \in 1 .. 5 * N
  PROVE  /\ (k - 1) \div 5 \in 0 .. N - 1
         /\ (k - 1) % 5 \in 0 .. 4
         /\ k = (5 * ((k - 1) \div 5)) + ((k - 1) % 5) + 1
OBVIOUS

LEMMA AtabDeletes ==
  /\ IsSeq(svd_atab_delete) /\ Len(svd_atab_delete) = 5 * NumChans
  /\ \A i \in 1 .. 5 * NumChans : OpAt(i + 2, svd_atab_delete[i])
<1>1. /\ svd_atab_delete \in
           [1 .. 5 * NumChans -> {svd_atab_delete[k] : k \in 1 .. 5 * NumChans}]
      /\ 5 * NumChans \in Nat
  BY InterfaceAssumption DEF svd_atab_delete
<1>2. IsSeq(svd_atab_delete) /\ Len(svd_atab_delete) = 5 * NumChans
  BY <1>1, Tabulated
<1>3. ASSUME NEW i \in 1 .. 5 * NumChans
      PROVE  OpAt(i + 2, svd_atab_delete[i])
  <2> DEFINE c == (i - 1) \div 5
  <2> DEFINE m == (i - 1) % 5
  <2>1. c \in Chan /\ m \in 0 .. 4 /\ i = 5 * c + m + 1
    BY <1>3, FiveEach, InterfaceAssumption DEF Chan
  <2>2. svd_atab_delete[i] = Free(ChanOrder[m + 1], c)
    BY DEF svd_atab_delete
  <2> HIDE DEF c, m
  <2>3. \/ m = 0 /\ i + 2 = 3 + 5 * c /\ svd_atab_delete[i] = Free("dtmf_tmr", c)
        \/ m = 1 /\ i + 2 = 4 + 5 * c /\ svd_atab_delete[i] = Free("local_wait", c)
        \/ m = 2 /\ i + 2 = 5 + 5 * c /\ svd_atab_delete[i] = Free("remote_wait", c)
        \/ m = 3 /\ i + 2 = 6 + 5 * c /\ svd_atab_delete[i] = Free("rtp_sfd", c)
        \/ m = 4 /\ i + 2 = 7 + 5 * c /\ svd_atab_delete[i] = Free("ctx", c)
    BY <2>1, <2>2 DEF ChanOrder, Chan
  <2>4. QED
    BY <2>1, <2>3 DEF OpAt
<1>4. QED
  BY <1>2, <1>3

LEMMA AbDestroys == IsTail(ab_destroy, 5 * NumChans + 8)
<1> DEFINE rest == <<Free("chans", 0), Free("dev_fd", 0), Free("devs", 0), Free("ab", 0)>>
<1>1. IsSeq(rest) /\ Len(rest) = 4
      /\ rest[1] = Free("chans", 0) /\ rest[2] = Free("dev_fd", 0)
      /\ rest[3] = Free("devs", 0) /\ rest[4] = Free("ab", 0)
  <2>1. rest \in Seq({Free("chans", 0), Free("dev_fd", 0), Free("devs", 0), Free("ab", 0)})
    OBVIOUS
  <2>2. QED
    BY <2>1 DEF IsSeq
<1>2. NumChans \in Nat
  BY InterfaceAssumption
<1>3. IsSeq(CloseChans) /\ Len(CloseChans) = NumChans
      /\ \A i \in 1 .. NumChans : CloseChans[i] = Free("chan_fd", i - 1)
  <2>1. CloseChans \in [1 .. NumChans -> {CloseChans[k] : k \in 1 .. NumChans}]
    BY DEF CloseChans
  <2>2. \A i \in 1 .. NumChans : CloseChans[i] = Free("chan_fd", i - 1)
    BY DEF CloseChans
  <2>3. QED
    BY <1>2, <2>1, <2>2, Tabulated
<1>4. ab_destroy = CloseChans \o rest
  BY DEF ab_destroy
<1> HIDE DEF rest
<1>5. /\ IsSeq(ab_destroy) /\ Len(ab_destroy) = NumChans + 4
      /\ \A i \in 1 .. NumChans : ab_destroy[i] = Free("chan_fd", i - 1)
      /\ \A i \in 1 .. 4 : ab_destroy[NumChans + i] = rest[i]
  <2>1. /\ IsSeq(CloseChans \o rest) /\ Len(CloseChans \o rest) = NumChans + 4
        /\ \A i \in 1 .. NumChans : (CloseChans \o rest)[i] = CloseChans[i]
        /\ \A i \in 1 .. 4 : (CloseChans \o rest)[NumChans + i] = rest[i]
    <3>0. IsSeq(CloseChans) /\ IsSeq(rest)
      BY <1>1, <1>3
    <3>1. /\ IsSeq(CloseChans \o rest)
          /\ Len(CloseChans \o rest) = Len(CloseChans) + Len(rest)
      BY <3>0, Concat
    <3>2. \A i \in 1 .. Len(CloseChans) : (CloseChans \o rest)[i] = CloseChans[i]
      BY <3>0, Concat
    <3>3. \A i \in 1 .. Len(rest) :
               (CloseChans \o rest)[Len(CloseChans) + i] = rest[i]
      BY <3>0, Concat
    <3>4. Len(CloseChans) = NumChans /\ Len(rest) = 4
      BY <1>1, <1>3
    <3>5. QED
      BY <3>1, <3>2, <3>3, <3>4
  <2>2. QED
    BY <1>3, <1>4, <2>1
<1>6. ASSUME NEW i \in 1 .. Len(ab_destroy)
      PROVE  OpAt(i + (5 * NumChans + 8), ab_destroy[i])
  <2>1. CASE i \in 1 .. NumChans
    <3>1. i - 1 \in Chan /\ i + (5 * NumChans + 8) = 5 * NumChans + 9 + (i - 1)
      BY <1>2, <2>1 DEF Chan
    <3>2. QED
      BY <1>5, <2>1, <3>1 DEF OpAt
  <2>2. CASE i \notin 1 .. NumChans
    <3>1. i - NumChans \in 1 .. 4
      BY <1>2, <1>5, <2>2
    <3>2. ab_destroy[NumChans + (i - NumChans)] = rest[i - NumChans]
      BY <1>5, <3>1
    <3>3. ab_destroy[i] = rest[i - NumChans]
      BY <1>2, <3>2
    <3>4. \/ i = NumChans + 1 \/ i = NumChans + 2 \/ i = NumChans + 3 \/ i = NumChans + 4
      BY <1>2, <3>1
    <3>5. QED
      BY <1>1, <1>2, <3>3, <3>4 DEF OpAt
  <2>3. QED
    BY <2>1, <2>2
<1>7. QED
  BY <1>2, <1>5, <1>6 DEF IsTail

\* A list before a tail is a longer tail.
LEMMA Longer ==
  ASSUME NEW s, NEW t, NEW n \in Nat, NEW m \in Nat, IsSeq(s), IsTail(t, n + m),
         Len(s) = m, n + m <= 6 * NumChans + 12,
         \A i \in 1 .. m : OpAt(i + n, s[i])
  PROVE  IsTail(s \o t, n)
<1>t. IsSeq(t) /\ Len(t) = 6 * NumChans + 12 - (n + m) /\ NumChans \in Nat
  BY InterfaceAssumption DEF IsTail
<1>c. /\ IsSeq(s \o t) /\ Len(t) \in Nat /\ Len(s \o t) = Len(s) + Len(t)
      /\ \A i \in 1 .. Len(s) + Len(t) :
           (s \o t)[i] = IF i <= Len(s) THEN s[i] ELSE t[i - Len(s)]
  BY <1>t, Concat
<1>1. IsSeq(s \o t) /\ Len(s \o t) = 6 * NumChans + 12 - n
  BY <1>t, <1>c
<1>2. ASSUME NEW i \in 1 .. Len(s \o t)
      PROVE  OpAt(i + n, (s \o t)[i])
  <2>i. (s \o t)[i] = IF i <= m THEN s[i] ELSE t[i - m]
    BY <1>c
  <2>1. CASE i <= m
    BY <2>1, <2>i
  <2>2. CASE i > m
    <3>1. i - m \in 1 .. Len(t) /\ (i - m) + (n + m) = i + n
      BY <1>1, <2>2, InterfaceAssumption DEF IsTail
    <3>2. (s \o t)[i] = t[i - m]
      BY <2>2, <2>i
    <3>3. QED
      BY <3>1, <3>2 DEF IsTail
  <2>3. QED
    BY <2>1, <2>2
<1>3. QED
  BY <1>1, <1>2 DEF IsTail

LEMMA ConfDestroys == IsTail(UnwindFromConf, 5 * NumChans + 6)
<1>1. /\ IsSeq(svd_conf_destroy) /\ Len(svd_conf_destroy) = 2
      /\ svd_conf_destroy[1] = Free("dial_plan", 0)
      /\ svd_conf_destroy[2] = Free("sip_account", 0)
  <2>1. svd_conf_destroy \in Seq({Free("dial_plan", 0), Free("sip_account", 0)})
    BY DEF svd_conf_destroy
  <2>2. QED
    BY <2>1 DEF svd_conf_destroy, IsSeq
<1>2. 5 * NumChans + 6 \in Nat
  BY InterfaceAssumption
<1>3. \A i \in 1 .. 2 : OpAt(i + (5 * NumChans + 6), svd_conf_destroy[i])
  <2>1. OpAt(5 * NumChans + 7, svd_conf_destroy[1])
    BY <1>1 DEF OpAt
  <2>2. OpAt(5 * NumChans + 8, svd_conf_destroy[2])
    BY <1>1 DEF OpAt
  <2>3. \A i \in 1 .. 2 : \/ i = 1 /\ i + (5 * NumChans + 6) = 5 * NumChans + 7
                          \/ i = 2 /\ i + (5 * NumChans + 6) = 5 * NumChans + 8
    BY InterfaceAssumption
  <2>4. QED
    BY <2>1, <2>2, <2>3
<1>4. (5 * NumChans + 6) + 2 = 5 * NumChans + 8
      /\ (5 * NumChans + 6) + 2 <= 6 * NumChans + 12
  BY InterfaceAssumption
<1>5. QED
  BY <1>1, <1>2, <1>3, <1>4, AbDestroys, Longer DEF UnwindFromConf

LEMMA SvdDestroys ==
  /\ IsSeq(svd_destroy) /\ Len(svd_destroy) = 5 * NumChans + 4
  /\ \A i \in 1 .. Len(svd_destroy) : OpAt(i + 2, svd_destroy[i])
<1> DEFINE rest == <<Do("svd_shutdown"), Free("root", 0), Do("su_home_deinit"), Free("svd", 0)>>
<1>1. IsSeq(rest) /\ Len(rest) = 4
      /\ rest[1] = Do("svd_shutdown") /\ rest[2] = Free("root", 0)
      /\ rest[3] = Do("su_home_deinit") /\ rest[4] = Free("svd", 0)
  <2>1. rest \in Seq({Do("svd_shutdown"), Free("root", 0), Do("su_home_deinit"), Free("svd", 0)})
    OBVIOUS
  <2>2. QED
    BY <2>1 DEF IsSeq
<1>2. NumChans \in Nat
  BY InterfaceAssumption
<1>3. svd_destroy = svd_atab_delete \o rest
  BY DEF svd_destroy
<1> HIDE DEF rest
<1>4. /\ IsSeq(svd_destroy) /\ Len(svd_destroy) = 5 * NumChans + 4
      /\ \A i \in 1 .. 5 * NumChans : svd_destroy[i] = svd_atab_delete[i]
      /\ \A i \in 1 .. 4 : svd_destroy[5 * NumChans + i] = rest[i]
  <2>1. /\ IsSeq(svd_atab_delete \o rest)
        /\ Len(svd_atab_delete \o rest) = 5 * NumChans + 4
        /\ \A i \in 1 .. 5 * NumChans : (svd_atab_delete \o rest)[i] = svd_atab_delete[i]
        /\ \A i \in 1 .. 4 : (svd_atab_delete \o rest)[5 * NumChans + i] = rest[i]
    <3>0. IsSeq(svd_atab_delete) /\ IsSeq(rest)
      BY <1>1, AtabDeletes
    <3>1. /\ IsSeq(svd_atab_delete \o rest)
          /\ Len(svd_atab_delete \o rest) = Len(svd_atab_delete) + Len(rest)
      BY <3>0, Concat
    <3>2. \A i \in 1 .. Len(svd_atab_delete) :
               (svd_atab_delete \o rest)[i] = svd_atab_delete[i]
      BY <3>0, Concat
    <3>3. \A i \in 1 .. Len(rest) :
               (svd_atab_delete \o rest)[Len(svd_atab_delete) + i] = rest[i]
      BY <3>0, Concat
    <3>4. Len(svd_atab_delete) = 5 * NumChans /\ Len(rest) = 4
      BY <1>1, AtabDeletes
    <3>5. QED
      BY <3>1, <3>2, <3>3, <3>4
  <2>2. QED
    BY <1>3, <2>1
<1>5. ASSUME NEW i \in 1 .. Len(svd_destroy)
      PROVE  OpAt(i + 2, svd_destroy[i])
  <2>1. CASE i \in 1 .. 5 * NumChans
    BY <1>4, <2>1, AtabDeletes
  <2>2. CASE i \notin 1 .. 5 * NumChans
    <3>1. \/ i = 5 * NumChans + 1 \/ i = 5 * NumChans + 2
          \/ i = 5 * NumChans + 3 \/ i = 5 * NumChans + 4
      BY <1>2, <1>4, <2>2
    <3>2. \/ i + 2 = 5 * NumChans + 3 /\ svd_destroy[i] = rest[1]
          \/ i + 2 = 5 * NumChans + 4 /\ svd_destroy[i] = rest[2]
          \/ i + 2 = 5 * NumChans + 5 /\ svd_destroy[i] = rest[3]
          \/ i + 2 = 5 * NumChans + 6 /\ svd_destroy[i] = rest[4]
      BY <1>2, <1>4, <3>1
    <3>3. QED
      BY <1>1, <3>2 DEF OpAt
  <2>3. QED
    BY <2>1, <2>2
<1>6. QED
  BY <1>4, <1>5

\* The three unwindings are one list, from different places on.
LEMMA Unwindings ==
  /\ IsTail(ab_destroy, 5 * NumChans + 8)
  /\ IsTail(svd_destroy \o UnwindFromConf, 2)
  /\ IsTail(UnwindFromIf, 0)
<1>1. IsTail(svd_destroy \o UnwindFromConf, 2)
  <2>1. 5 * NumChans + 4 \in Nat /\ 2 + (5 * NumChans + 4) = 5 * NumChans + 6
        /\ 2 + (5 * NumChans + 4) <= 6 * NumChans + 12
    BY InterfaceAssumption
  <2>2. QED
    BY <2>1, SvdDestroys, ConfDestroys, Longer
<1>2. /\ IsSeq(svd_destroy_interface) /\ Len(svd_destroy_interface) = 2
      /\ svd_destroy_interface[1] = Do("close_ifd")
      /\ svd_destroy_interface[2] = Free("if_name", 0)
  <2>1. svd_destroy_interface \in Seq({Do("close_ifd"), Free("if_name", 0)})
    BY DEF svd_destroy_interface
  <2>2. QED
    BY <2>1 DEF svd_destroy_interface, IsSeq
<1>3. \A i \in 1 .. 2 : OpAt(i + 0, svd_destroy_interface[i])
  <2>1. OpAt(1, svd_destroy_interface[1]) /\ OpAt(2, svd_destroy_interface[2])
    BY <1>2 DEF OpAt
  <2>2. \A i \in 1 .. 2 : (i = 1 \/ i = 2) /\ i + 0 = i
    OBVIOUS
  <2>3. QED
    BY <2>1, <2>2
<1>4. IsTail(svd_destroy_interface \o (svd_destroy \o UnwindFromConf), 0)
  <2>1. 0 + 2 = 2 /\ 0 + 2 <= 6 * NumChans + 12
    BY InterfaceAssumption
  <2>2. QED
    BY <1>1, <1>2, <1>3, <2>1, Longer
<1>5. UnwindFromIf = svd_destroy_interface \o (svd_destroy \o UnwindFromConf)
  <2>1. PICK S, T, U : /\ svd_destroy_interface \in Seq(S) /\ svd_destroy \in Seq(T)
                       /\ UnwindFromConf \in Seq(U)
    BY <1>2, SvdDestroys, ConfDestroys DEF IsSeq, IsTail
  <2>2. /\ svd_destroy_interface \in Seq(S \union T \union U)
        /\ svd_destroy \in Seq(S \union T \union U)
        /\ UnwindFromConf \in Seq(S \union T \union U)
    BY <2>1
  <2>3. QED
    BY <2>2, ConcatAssociative DEF UnwindFromIf
<1>6. QED
  BY <1>1, <1>4, <1>5, AbDestroys

-----------------------------------------------------------------------------
(* Parts and their places                                                  *)

End == 6 * NumChans + 12
Mid == 5 * NumChans + 3
Cancel(t) == <<"destroy", t>>
OfShutdown(op) == op = Do("nua_shutdown") \/ \E t \in Timers : op = Cancel(t)

\* What goes at the place that Place says
Ordinary == Parts \ (Timers \union {One("nua")})

LEMMA Kinds ==
  ASSUME NEW d \in Ordinary
  PROVE  \/ d \in {One("ab"), One("chans"), One("devs"), One("dev_fd")}
         \/ \E c \in Chan : d = <<"chan_fd", c>>
         \/ d \in {One("svd"), One("root"), One("dev_wait")}
         \/ d \in {One("sip_account"), One("dial_plan")}
         \/ \E c \in Chan : \/ d = <<"dtmf_tmr", c>> \/ d = <<"local_wait", c>>
                            \/ d = <<"remote_wait", c>> \/ d = <<"rtp_sfd", c>>
                            \/ d = <<"ctx", c>>
         \/ d \in {One("ifd"), One("if_name"), One("if_wait")}
<1>1. CASE d \in ChanParts
  BY <1>1 DEF ChanParts, ChanKind
<1>2. CASE d \in Each("chan_fd", NumChans)
  BY <1>2 DEF Each, Chan
<1>3. QED
  BY <1>1, <1>2 DEF Ordinary, Parts, AbParts, SvdParts, IfParts, Vectors

LEMMA NotKept ==
  /\ Ordinary \intersect (Kept \union Timers) = {}
  /\ Parts \ (Kept \union Timers) = Ordinary
<1>1. One("stdin") \notin Parts /\ One("fw_file") \notin Parts
  BY DEF Parts, AbParts, SvdParts, IfParts, One, Each, ChanParts, ChanKind,
         Vectors, Timers
<1>2. QED
  BY <1>1 DEF Ordinary, Kept

LEMMA Positions ==
  /\ Place(One("ab")) = 6 * NumChans + 12
  /\ Place(One("devs")) = 6 * NumChans + 11
  /\ Place(One("dev_fd")) = 6 * NumChans + 10
  /\ Place(One("chans")) = 6 * NumChans + 9
  /\ Place(One("svd")) = 5 * NumChans + 6
  /\ Place(One("sip_account")) = 5 * NumChans + 5
  /\ Place(One("dial_plan")) = 5 * NumChans + 5
  /\ Place(One("root")) = 5 * NumChans + 4
  /\ Place(One("dev_wait")) = 5 * NumChans + 4
  /\ Place(One("if_wait")) = 5 * NumChans + 4
  /\ Place(One("ifd")) = 1
  /\ Place(One("if_name")) = 2
  /\ \A i : /\ Place(<<"dtmf_tmr", i>>) = 3 + 5 * i
            /\ Place(<<"local_wait", i>>) = 4 + 5 * i
            /\ Place(<<"remote_wait", i>>) = 5 + 5 * i
            /\ Place(<<"rtp_sfd", i>>) = 6 + 5 * i
            /\ Place(<<"ctx", i>>) = 7 + 5 * i
            /\ Place(<<"chan_fd", i>>) = 5 * NumChans + 9 + i
  BY DEF Place, One

LEMMA PlaceOf ==
  ASSUME NEW d
  PROVE  /\ d[1] = "ab" => Place(d) = 6 * NumChans + 12
         /\ d[1] = "devs" => Place(d) = 6 * NumChans + 11
         /\ d[1] = "dev_fd" => Place(d) = 6 * NumChans + 10
         /\ d[1] = "chans" => Place(d) = 6 * NumChans + 9
         /\ d[1] = "svd" => Place(d) = 5 * NumChans + 6
         /\ d[1] = "sip_account" => Place(d) = 5 * NumChans + 5
         /\ d[1] = "dial_plan" => Place(d) = 5 * NumChans + 5
         /\ d[1] = "root" => Place(d) = 5 * NumChans + 4
         /\ d[1] = "dev_wait" => Place(d) = 5 * NumChans + 4
         /\ d[1] = "if_wait" => Place(d) = 5 * NumChans + 4
         /\ d[1] = "ifd" => Place(d) = 1
         /\ d[1] = "if_name" => Place(d) = 2
         /\ d[1] = "dtmf_tmr" => Place(d) = 3 + 5 * d[2]
         /\ d[1] = "local_wait" => Place(d) = 4 + 5 * d[2]
         /\ d[1] = "remote_wait" => Place(d) = 5 + 5 * d[2]
         /\ d[1] = "rtp_sfd" => Place(d) = 6 + 5 * d[2]
         /\ d[1] = "ctx" => Place(d) = 7 + 5 * d[2]
         /\ d[1] = "chan_fd" => Place(d) = 5 * NumChans + 9 + d[2]
  BY DEF Place

LEMMA Places ==
  ASSUME NEW d \in Ordinary
  PROVE  /\ Place(d) \in 1 .. End /\ Place(d) # Mid
         /\ d \in AbParts => Place(d) > 5 * NumChans + 8
         /\ d \notin IfParts => Place(d) > 2
<1> USE InterfaceAssumption
<1>1. CASE d \in {One("ab"), One("chans"), One("devs"), One("dev_fd")}
  BY <1>1, Positions DEF End, Mid
<1>2. ASSUME NEW c \in Chan, d = <<"chan_fd", c>>
      PROVE  Place(d) = 5 * NumChans + 9 + c /\ c \in 0 .. NumChans - 1
  BY <1>2, Positions DEF Chan
<1>3. CASE d \in {One("svd"), One("root"), One("dev_wait")}
  <2>1. d \notin AbParts
    BY <1>3 DEF AbParts, One, Each
  <2>2. QED
    BY <1>3, <2>1, Positions DEF End, Mid
<1>4. CASE d \in {One("sip_account"), One("dial_plan")}
  <2>1. d \notin AbParts
    BY <1>4 DEF AbParts, One, Each
  <2>2. QED
    BY <1>4, <2>1, Positions DEF End, Mid
<1>5. ASSUME NEW c \in Chan,
             \/ d = <<"dtmf_tmr", c>> \/ d = <<"local_wait", c>>
             \/ d = <<"remote_wait", c>> \/ d = <<"rtp_sfd", c>>
             \/ d = <<"ctx", c>>
      PROVE  /\ Place(d) \in 3 + 5 * c .. 7 + 5 * c /\ c \in 0 .. NumChans - 1
             /\ d \notin AbParts
  <2>1. d \notin AbParts
    BY <1>5 DEF AbParts, One, Each
  <2>2. QED
    BY <1>5, <2>1, Positions DEF Chan
<1>6. CASE d \in {One("ifd"), One("if_name"), One("if_wait")}
  <2>1. d \notin AbParts /\ d \in IfParts
    BY <1>6 DEF AbParts, IfParts, One, Each
  <2>2. QED
    BY <1>6, <2>1, Positions DEF End, Mid
<1>7. CASE \E c \in Chan : d = <<"chan_fd", c>>
  BY <1>2, <1>7 DEF End, Mid
<1>8. CASE \E c \in Chan : \/ d = <<"dtmf_tmr", c>> \/ d = <<"local_wait", c>>
                           \/ d = <<"remote_wait", c>> \/ d = <<"rtp_sfd", c>>
                           \/ d = <<"ctx", c>>
  BY <1>5, <1>8 DEF End, Mid
<1>9. QED
  BY <1>1, <1>3, <1>4, <1>6, <1>7, <1>8, Kinds, Zenon

\* An ordinary part goes at its place and at no earlier one.
LEMMA Takes ==
  ASSUME NEW d \in Ordinary, NEW op, OpAt(Place(d), op)
  PROVE  \/ op = <<"free", d>>
         \/ op = Free("root", 0) /\ d \in {One("dev_wait"), One("if_wait")}
         \/ op = Do("close_ifd") /\ d = One("ifd")
         \/ op = Do("su_home_deinit") /\ d \in Vectors
<1> USE InterfaceAssumption
<1>1. CASE d \in {One("ab"), One("chans"), One("devs"), One("dev_fd")}
  BY <1>1, Positions DEF One, OpAt, Free, Chan
<1>2. CASE \E c \in Chan : d = <<"chan_fd", c>>
  BY <1>2, Positions DEF OpAt, Free, Chan
<1>3. CASE d \in {One("svd"), One("root"), One("dev_wait")}
  BY <1>3, Positions DEF One, OpAt, Free, Chan
<1>4. CASE d \in {One("sip_account"), One("dial_plan")}
  BY <1>4, Positions DEF One, OpAt, Free, Chan, Vectors
<1>5. ASSUME NEW c \in Chan,
             \/ d = <<"dtmf_tmr", c>> \/ d = <<"local_wait", c>>
             \/ d = <<"remote_wait", c>> \/ d = <<"rtp_sfd", c>>
             \/ d = <<"ctx", c>>
      PROVE  op = <<"free", d>>
  BY <1>5, Positions DEF OpAt, Free, Chan
<1>6. CASE d \in {One("ifd"), One("if_name"), One("if_wait")}
  BY <1>6, Positions DEF One, OpAt, Free, Chan
<1>7. CASE \E c \in Chan : \/ d = <<"dtmf_tmr", c>> \/ d = <<"local_wait", c>>
                           \/ d = <<"remote_wait", c>> \/ d = <<"rtp_sfd", c>>
                           \/ d = <<"ctx", c>>
  BY <1>5, <1>7
<1>8. QED
  BY <1>1, <1>2, <1>3, <1>4, <1>6, <1>7, Kinds, Zenon

\* What the operation at place p frees, and where the others are
LEMMA Frees ==
  ASSUME NEW p, NEW r, OpAt(p, <<"free", r>>)
  PROVE  /\ r \in Ordinary /\ r \notin {One("ifd"), One("dev_wait"), One("if_wait")}
         /\ Place(r) <= p /\ p # Mid
<1> USE InterfaceAssumption
<1>1. PICK c \in Chan :
        \/ p = 2 /\ r = One("if_name")
        \/ p = 3 + 5 * c /\ r = <<"dtmf_tmr", c>>
        \/ p = 4 + 5 * c /\ r = <<"local_wait", c>>
        \/ p = 5 + 5 * c /\ r = <<"remote_wait", c>>
        \/ p = 6 + 5 * c /\ r = <<"rtp_sfd", c>>
        \/ p = 7 + 5 * c /\ r = <<"ctx", c>>
        \/ p = 5 * NumChans + 4 /\ r = One("root")
        \/ p = 5 * NumChans + 6 /\ r = One("svd")
        \/ p = 5 * NumChans + 7 /\ r = One("dial_plan")
        \/ p = 5 * NumChans + 8 /\ r = One("sip_account")
        \/ p = 5 * NumChans + 9 + c /\ r = <<"chan_fd", c>>
        \/ p = 6 * NumChans + 9 /\ r = One("chans")
        \/ p = 6 * NumChans + 10 /\ r = One("dev_fd")
        \/ p = 6 * NumChans + 11 /\ r = One("devs")
        \/ p = 6 * NumChans + 12 /\ r = One("ab")
  <2>1. 0 \in Chan
    BY DEF Chan
  <2>2. QED
    BY <2>1 DEF OpAt, Free, Do, One
<1>2. r \in Parts
  BY <1>1 DEF Parts, AbParts, SvdParts, IfParts, One, Each, ChanParts, ChanKind,
              Vectors, Chan
<1>3. r \notin Timers /\ r \notin {One("nua"), One("ifd"), One("dev_wait"), One("if_wait")}
  BY <1>1 DEF Timers, Each, One
<1>4. Place(r) <= p /\ p # Mid
  BY <1>1 DEF Place, One, Mid, Chan
<1>5. QED
  BY <1>2, <1>3, <1>4 DEF Ordinary

LEMMA Others ==
  ASSUME NEW p, NEW op, OpAt(p, op)
  PROVE  /\ op = Do("close_ifd") => p = 1
         /\ op = Do("su_home_deinit") => p = 5 * NumChans + 5
         /\ op = Do("svd_shutdown") <=> p = Mid
         /\ ~OfShutdown(op) /\ op[1] # "destroy" /\ op # Do("nua_shutdown")
<1> USE InterfaceAssumption
<1>1. /\ \A what : Do(what)[1] = what
      /\ \A kind, i : Free(kind, i)[1] = "free"
      /\ \A t : Cancel(t)[1] = "destroy"
  BY DEF Do, Free, Cancel
<1>2. \/ op[1] = "free" /\ p # Mid
      \/ p = 1 /\ op = Do("close_ifd")
      \/ p = Mid /\ op = Do("svd_shutdown")
      \/ p = 5 * NumChans + 5 /\ op = Do("su_home_deinit")
  BY <1>1 DEF OpAt, Mid, Chan
<1>3. \/ op[1] = "free" /\ p # Mid
      \/ p = 1 /\ op[1] = "close_ifd"
      \/ p = Mid /\ op[1] = "svd_shutdown" /\ op = Do("svd_shutdown")
      \/ p = 5 * NumChans + 5 /\ op[1] = "su_home_deinit"
  BY <1>1, <1>2
<1>4. /\ op = Do("close_ifd") => op[1] = "close_ifd"
      /\ op = Do("su_home_deinit") => op[1] = "su_home_deinit"
      /\ op = Do("svd_shutdown") => op[1] = "svd_shutdown"
      /\ OfShutdown(op) => op[1] \in {"destroy", "nua_shutdown"}
      /\ op = Do("nua_shutdown") => op[1] = "nua_shutdown"
  BY <1>1 DEF OfShutdown
<1>5. 1 # Mid /\ 5 * NumChans + 5 # Mid
  BY DEF Mid
<1>6. QED
  BY <1>3, <1>4, <1>5

\* What needs r goes before r.
LEMMA NeedsEarlier ==
  ASSUME NEW d \in Parts \union Kept, NEW r \in Ordinary \union {One("stdin")},
         Needs(d, r), <<d, r>> \notin Excepted
  PROVE  /\ r \in Ordinary /\ d \in Parts /\ d # One("nua")
         /\ IF d \in Timers THEN Place(r) > Mid ELSE Place(d) < Place(r)
<1> USE InterfaceAssumption
<1>1. d \notin {One("stdin"), One("fw_file")} /\ r # One("stdin")
  BY DEF Needs, One
<1>2. d \in Parts /\ r \in Ordinary
  BY <1>1 DEF Kept, Parts, SvdParts
<1>3. d # One("nua")
  BY DEF Needs, One, Excepted
<1>4. CASE d \in Timers
  <2>1. d[1] = "reg_tmr"
    BY <1>4 DEF Timers, Each
  <2>2. r \in {One("root"), One("sip_account")}
    BY <2>1 DEF Needs
  <2>3. One("root")[1] = "root" /\ One("sip_account")[1] = "sip_account"
    BY DEF One
  <2>4. QED
    BY <1>2, <1>3, <1>4, <2>2, <2>3, PlaceOf DEF Mid
<1>5. CASE d \notin Timers
  <2>1. d \in Ordinary
    BY <1>2, <1>3, <1>5 DEF Ordinary
  <2>2. d[1] \in ChanKind \union {"chan_fd"} => d[2] \in 0 .. NumChans - 1
    BY <2>1, Kinds DEF ChanKind, One, Chan
  <2>3. d[1] # "reg_tmr" /\ d[1] # "nua"
    BY <2>1, Kinds DEF One
  <2>4. ~ (d[1] = "if_wait" /\ r = One("ifd"))
    BY <2>1, Kinds DEF Excepted, One
  <2>5. Place(d) < Place(r)
    <3>1. CASE r = One("root") /\ d[1] \in {"local_wait", "remote_wait", "dtmf_tmr"}
      BY <2>2, <3>1, PlaceOf, Positions DEF ChanKind
    <3>2. CASE d[1] = "local_wait" /\ r \in {<<"chan_fd", d[2]>>, <<"ctx", d[2]>>}
      BY <2>2, <3>2, PlaceOf, Positions DEF ChanKind
    <3>3. CASE d[1] = "remote_wait" /\ r \in {<<"rtp_sfd", d[2]>>, <<"ctx", d[2]>>}
      BY <2>2, <3>3, PlaceOf, Positions DEF ChanKind
    <3>4. CASE d[1] \in {"rtp_sfd", "dtmf_tmr"} /\ r = <<"ctx", d[2]>>
      BY <2>2, <3>4, PlaceOf, Positions DEF ChanKind
    <3>5. CASE d[1] = "dev_wait" /\ r = One("dev_fd")
      BY <3>5, PlaceOf, Positions
    <3>6. CASE d[1] \in {"root", "sip_account", "dial_plan", "ifd"} /\ r = One("svd")
      BY <3>6, PlaceOf, Positions
    <3>7. CASE d[1] \in {"chan_fd", "ctx"} /\ r = One("chans")
      BY <2>2, <3>7, PlaceOf, Positions DEF ChanKind
    <3>8. CASE d[1] = "dev_fd" /\ r = One("devs")
      BY <3>8, PlaceOf, Positions
    <3>9. CASE d[1] \in {"chans", "devs"} /\ r = One("ab")
      BY <3>9, PlaceOf, Positions
    <3>10. QED
      BY <2>3, <2>4, <3>1, <3>2, <3>3, <3>4, <3>5, <3>6, <3>7, <3>8, <3>9 DEF Needs
  <2>6. QED
    BY <1>2, <1>3, <1>5, <2>5
<1>6. QED
  BY <1>4, <1>5

-----------------------------------------------------------------------------
(* What svd_shutdown does                                                  *)

LEMMA Shutdowns ==
  /\ IsSeq(ShutdownOps) /\ Len(ShutdownOps) = NumAccounts + 1
  /\ \A i \in 1 .. NumAccounts : ShutdownOps[i] = Cancel(<<"reg_tmr", i - 1>>)
  /\ ShutdownOps[NumAccounts + 1] = Do("nua_shutdown")
<1> DEFINE cancels == [a \in 1 .. NumAccounts |-> <<"destroy", <<"reg_tmr", a - 1>>>>]
<1> DEFINE last == <<Do("nua_shutdown")>>
<1>1. NumAccounts \in Nat
  BY InterfaceAssumption
<1>2. /\ IsSeq(cancels) /\ Len(cancels) = NumAccounts
      /\ \A i \in 1 .. NumAccounts : cancels[i] = Cancel(<<"reg_tmr", i - 1>>)
  <2>1. cancels \in [1 .. NumAccounts -> {cancels[k] : k \in 1 .. NumAccounts}]
    OBVIOUS
  <2>2. \A i \in 1 .. NumAccounts : cancels[i] = Cancel(<<"reg_tmr", i - 1>>)
    BY DEF Cancel
  <2> HIDE DEF cancels
  <2>3. QED
    BY <1>1, <2>1, <2>2, Tabulated
<1>3. IsSeq(last) /\ Len(last) = 1 /\ last[1] = Do("nua_shutdown")
  <2>1. last \in Seq({Do("nua_shutdown")})
    OBVIOUS
  <2>2. QED
    BY <2>1 DEF IsSeq
<1>4. ShutdownOps = cancels \o last
  BY DEF ShutdownOps
<1> HIDE DEF cancels, last
<1>5. IsSeq(cancels \o last) /\ Len(cancels \o last) = NumAccounts + 1
  <2>1. IsSeq(cancels) /\ IsSeq(last)
    BY <1>2, <1>3
  <2>2. IsSeq(cancels \o last) /\ Len(cancels \o last) = Len(cancels) + Len(last)
    BY <2>1, Concat
  <2>3. QED
    BY <1>2, <1>3, <2>2
<1>6. \A i \in 1 .. NumAccounts : (cancels \o last)[i] = cancels[i]
  BY <1>2, <1>3, Concat
<1>7. (cancels \o last)[NumAccounts + 1] = last[1]
  <2>1. IsSeq(cancels) /\ IsSeq(last) /\ 1 \in 1 .. Len(last)
    BY <1>2, <1>3
  <2>2. (cancels \o last)[Len(cancels) + 1] = last[1]
    BY <2>1, Concat
  <2>3. QED
    BY <1>2, <2>2
<1>8. QED
  BY <1>2, <1>3, <1>4, <1>5, <1>6, <1>7

LEMMA Cancels ==
  /\ \A t \in Timers : \E i \in 1 .. NumAccounts : ShutdownOps[i] = Cancel(t)
  /\ \A i \in 1 .. NumAccounts + 1 : OfShutdown(ShutdownOps[i])
  /\ \A t : Cancel(t) # Do("nua_shutdown")
  /\ \A t, u : Cancel(t) = Cancel(u) => t = u
  /\ \A t : \A i, j \in 1 .. NumAccounts + 1 :
       ShutdownOps[i] = Cancel(t) /\ ShutdownOps[j] = Cancel(t) => i = j
<1>1. NumAccounts \in Nat
  BY InterfaceAssumption
<1>2. \A t : Cancel(t) # Do("nua_shutdown") /\ Cancel(t)[1] = "destroy"
  BY DEF Cancel, Do
<1>3. \A t, u : Cancel(t) = Cancel(u) => t = u
  BY DEF Cancel
<1>4. ASSUME NEW t \in Timers
      PROVE  \E i \in 1 .. NumAccounts : ShutdownOps[i] = Cancel(t)
  <2>1. PICK k \in 0 .. NumAccounts - 1 : t = <<"reg_tmr", k>>
    BY DEF Timers, Each
  <2>2. k + 1 \in 1 .. NumAccounts /\ (k + 1) - 1 = k
    BY <1>1
  <2>3. QED
    BY <2>1, <2>2, Shutdowns
<1>5. ASSUME NEW i \in 1 .. NumAccounts + 1
      PROVE  OfShutdown(ShutdownOps[i])
  <2>1. CASE i = NumAccounts + 1
    BY <2>1, Shutdowns DEF OfShutdown
  <2>2. CASE i \in 1 .. NumAccounts
    <3>1. <<"reg_tmr", i - 1>> \in Timers
      BY <1>1, <2>2 DEF Timers, Each
    <3>2. QED
      BY <2>2, <3>1, Shutdowns DEF OfShutdown
  <2>3. QED
    BY <1>1, <2>1, <2>2
<1>6. ASSUME NEW t, NEW i \in 1 .. NumAccounts + 1, NEW j \in 1 .. NumAccounts + 1,
             ShutdownOps[i] = Cancel(t), ShutdownOps[j] = Cancel(t)
      PROVE  i = j
  <2>1. i \in 1 .. NumAccounts /\ j \in 1 .. NumAccounts
    BY <1>1, <1>2, <1>6, Shutdowns
  <2>2. Cancel(<<"reg_tmr", i - 1>>) = Cancel(<<"reg_tmr", j - 1>>)
    BY <1>6, <2>1, Shutdowns
  <2>3. <<"reg_tmr", i - 1>> = <<"reg_tmr", j - 1>>
    BY <1>3, <2>2
  <2>4. QED
    BY <2>1, <2>3
<1>7. QED
  BY <1>2, <1>3, <1>4, <1>5, <1>6

LEMMA Tails ==
  ASSUME NEW s, IsSeq(s), s # << >>
  PROVE  /\ Len(s) \in Nat \ {0} /\ Head(s) = s[1]
         /\ IsSeq(Tail(s)) /\ Len(Tail(s)) = Len(s) - 1
         /\ \A i \in 1 .. Len(s) - 1 : Tail(s)[i] = s[i + 1]
<1>1. PICK S : s \in Seq(S)
  BY DEF IsSeq
<1>2. Tail(s) \in Seq(S) /\ Len(s) \in Nat \ {0}
  BY <1>1, EmptySeq, HeadTailProperties
<1>3. QED
  BY <1>1, <1>2, HeadTailProperties DEF IsSeq

-----------------------------------------------------------------------------
(***************************************************************************)
(* The inductive invariant                                                 *)
(*                                                                         *)
(* The releases still to make are a of svd_shutdown and then UnwindFromIf  *)
(* without its first f.                                                    *)
(***************************************************************************)
Listed(s, a, f) ==
  /\ IsSeq(s) /\ Len(s) = a + End - f
  /\ \A i \in 1 .. a : OfShutdown(s[i])
  /\ \A i \in 1 .. End - f : OpAt(i + f, s[a + i])

\* What has had its turn is gone.
Ordered(f) ==
  phase # "loop" => \A d \in held \ (Kept \union Timers) : Place(d) > f

\* Each timer of registration is destroyed by a shutdown to come.
TimersGo(a, f) == \A t \in held \intersect Timers :
  \/ phase = "loop" /\ requests = 0
  \/ phase = "unwind" /\ f < Mid /\ One("nua") \in ptr
  \/ \E i \in 1 .. a : todo[i] = Cancel(t)

\* The first svd_shutdown destroys no timer twice.
OneShutdown(a) == requests <= 1 =>
  /\ a <= NumAccounts + 1
  /\ \A i \in 1 .. a : /\ todo[i] = ShutdownOps[NumAccounts + 1 - a + i]
                       /\ \A t \in Timers \intersect ptr :
                            todo[i] = Cancel(t) => t \in held

InLoop(a, f) == phase = "loop" =>
  /\ f = End /\ One("stdin") \in held
  /\ requests = 0 => a = 0 /\ Timers \intersect ptr \subseteq held
  /\ requests > 0 /\ One("nua") \in ptr =>
       \E i \in 1 .. a : todo[i] = Do("nua_shutdown")

AfterLoop(a, f) ==
  /\ phase = "unwind" =>
       requests = 0 /\ (f < Mid => a = 0 /\ Timers \intersect ptr \subseteq held)
  /\ phase = "end" => requests > 0 /\ One("nua") \notin ptr
  /\ phase = "exit" => todo = << >>
  /\ f = 0 => One("stdin") \in held

Running(a, f) ==
  /\ Listed(todo, a, f) /\ Ordered(f) /\ TimersGo(a, f) /\ OneShutdown(a)
  /\ InLoop(a, f) /\ AfterLoop(a, f)

NuaStep == Len(ab_create) + 5 * NumChans + 9

Starting ==
  /\ todo = << >> /\ requests = 0 /\ passed \in 0 .. Len(Plan) - 1
  /\ One("stdin") \in held /\ ptr = held \ {One("stdin")}
  /\ passed <= Len(ab_create) => held \subseteq AbParts \union {One("stdin")}
  /\ passed <= Len(ab_create) + Len(svd_create) => held \intersect IfParts = {}
  /\ passed < NuaStep => held \intersect Timers = {}
  /\ passed >= NuaStep => One("nua") \in held

LifeTypeOK ==
  /\ held \subseteq Parts \union Kept /\ ptr \subseteq Parts /\ requests \in Nat
  /\ phase \in {"start", "loop", "unwind", "end", "exit", "undefined"}

\* The pointers are right, but for the stack, the vectors and the timers.
Pointers == held \ Kept \subseteq ptr /\ ptr \ (Vectors \union Timers) \subseteq held

StdinHeld ==
  One("stdin") \in held \/ passed = Len(ab_create) + Len(svd_create)

LifeInv ==
  /\ LifeTypeOK /\ Pointers /\ StdinHeld
  /\ phase = "start" => Starting
  /\ phase \notin {"start", "undefined"} =>
       \E a \in Nat, f \in 0 .. End : Running(a, f)
  /\ ReleasedOnce /\ DependantsGoFirst

-----------------------------------------------------------------------------
(* Lists and their next operation                                          *)

LEMMA NextPrefix ==
  ASSUME NEW s, NEW a \in Nat \ {0}, NEW f \in 0 .. End, Listed(s, a, f)
  PROVE  /\ s # << >> /\ OfShutdown(s[1]) /\ Listed(Tail(s), a - 1, f)
         /\ Head(s) = s[1]
         /\ \A i \in 1 .. a - 1 : Tail(s)[i] = s[i + 1]
<1>1. End \in Nat /\ Len(s) \in Nat /\ Len(s) >= a
  BY InterfaceAssumption DEF Listed, End
<1>2. s # << >>
  BY <1>1
<1>3. OfShutdown(s[1])
  BY DEF Listed
<1>4. /\ Head(s) = s[1] /\ IsSeq(Tail(s)) /\ Len(Tail(s)) = Len(s) - 1
      /\ \A i \in 1 .. Len(s) - 1 : Tail(s)[i] = s[i + 1]
  BY <1>2, Tails DEF Listed
<1>5. \A i \in 1 .. a - 1 : Tail(s)[i] = s[i + 1]
  BY <1>1, <1>4
<1>6. \A i \in 1 .. a - 1 : OfShutdown(Tail(s)[i])
  <2>1. \A i \in 1 .. a - 1 : i + 1 \in 1 .. a
    OBVIOUS
  <2>2. QED
    BY <1>5, <2>1 DEF Listed
<1>7. ASSUME NEW i \in 1 .. End - f
      PROVE  OpAt(i + f, Tail(s)[(a - 1) + i])
  <2>1. (a - 1) + i \in 1 .. Len(s) - 1 /\ ((a - 1) + i) + 1 = a + i
    BY <1>1 DEF Listed
  <2>2. QED
    BY <1>4, <2>1 DEF Listed
<1>8. Len(Tail(s)) = (a - 1) + End - f
  BY <1>1, <1>4 DEF Listed
<1>9. QED
  BY <1>2, <1>3, <1>4, <1>5, <1>6, <1>7, <1>8 DEF Listed

LEMMA NextOp ==
  ASSUME NEW s, NEW f \in 0 .. End, Listed(s, 0, f), s # << >>
  PROVE  /\ f + 1 \in 0 .. End /\ OpAt(f + 1, Head(s))
         /\ Listed(Tail(s), 0, f + 1)
<1>1. End \in Nat
  BY InterfaceAssumption DEF End
<1>2. /\ Len(s) \in Nat \ {0} /\ Head(s) = s[1]
      /\ IsSeq(Tail(s)) /\ Len(Tail(s)) = Len(s) - 1
      /\ \A i \in 1 .. Len(s) - 1 : Tail(s)[i] = s[i + 1]
  BY Tails DEF Listed
<1>3. Len(s) = End - f
  BY <1>1 DEF Listed
<1>4. f + 1 \in 0 .. End
  BY <1>1, <1>2, <1>3
<1>5. OpAt(f + 1, Head(s))
  <2>1. 1 \in 1 .. End - f /\ 1 + f = f + 1 /\ 0 + 1 = 1
    BY <1>1, <1>4
  <2>2. OpAt(1 + f, s[0 + 1])
    BY <2>1 DEF Listed
  <2>3. QED
    BY <1>2, <2>1, <2>2
<1>6. ASSUME NEW i \in 1 .. End - (f + 1)
      PROVE  OpAt(i + (f + 1), Tail(s)[0 + i])
  <2>1. /\ i \in 1 .. Len(s) - 1 /\ i + 1 \in 1 .. End - f
        /\ 0 + i = i /\ 0 + (i + 1) = i + 1 /\ (i + 1) + f = i + (f + 1)
    BY <1>1, <1>3
  <2>2. OpAt((i + 1) + f, s[0 + (i + 1)])
    BY <2>1 DEF Listed
  <2>3. QED
    BY <1>2, <2>1, <2>2
<1>7. Len(Tail(s)) = 0 + End - (f + 1) /\ 1 .. 0 = {}
  BY <1>1, <1>2, <1>3
<1>8. QED
  BY <1>2, <1>4, <1>5, <1>6, <1>7 DEF Listed

\* The list of svd_shutdown before another
LEMMA NextShutdown ==
  ASSUME NEW s, NEW a \in Nat, NEW f \in 0 .. End, Listed(s, a, f)
  PROVE  /\ Listed(ShutdownOps \o s, NumAccounts + 1 + a, f)
         /\ NumAccounts + 1 + a \in Nat
         /\ \A i \in 1 .. NumAccounts + 1 : (ShutdownOps \o s)[i] = ShutdownOps[i]
<1> DEFINE n == NumAccounts + 1
<1> DEFINE t == ShutdownOps \o s
<1>1. End \in Nat /\ n \in Nat /\ Len(s) = a + End - f
  BY InterfaceAssumption DEF End, Listed
<1>2. IsSeq(ShutdownOps) /\ IsSeq(s) /\ Len(ShutdownOps) = n
  BY Shutdowns DEF Listed
<1>3. IsSeq(t) /\ Len(t) = n + Len(s)
  BY <1>2, Concat
<1>4. \A i \in 1 .. n : t[i] = ShutdownOps[i]
  BY <1>2, Concat
<1>5. \A i \in 1 .. Len(s) : t[n + i] = s[i]
  BY <1>2, Concat
<1> HIDE DEF n, t
<1>6. ASSUME NEW i \in 1 .. n + a
      PROVE  OfShutdown(t[i])
  <2>1. CASE i \in 1 .. n
    BY <1>4, <2>1, Cancels DEF n
  <2>2. CASE i \notin 1 .. n
    <3>1. i - n \in 1 .. a /\ i - n \in 1 .. Len(s) /\ n + (i - n) = i
      BY <1>1, <2>2
    <3>2. t[n + (i - n)] = s[i - n]
      BY <1>5, <3>1
    <3>3. QED
      BY <3>1, <3>2 DEF Listed
  <2>3. QED
    BY <2>1, <2>2
<1>7. ASSUME NEW i \in 1 .. End - f
      PROVE  OpAt(i + f, t[(n + a) + i])
  <2>1. a + i \in 1 .. Len(s) /\ n + (a + i) = (n + a) + i
    BY <1>1
  <2>2. t[n + (a + i)] = s[a + i]
    BY <1>5, <2>1
  <2>3. QED
    BY <2>1, <2>2 DEF Listed
<1>8. Len(t) = (n + a) + End - f /\ n + a \in Nat
  BY <1>1, <1>3
<1>9. Listed(t, n + a, f)
  BY <1>3, <1>6, <1>7, <1>8 DEF Listed
<1>10. QED
  BY <1>4, <1>8, <1>9 DEF n, t

LEMMA NoOps ==
  /\ Listed(<< >>, 0, End)
  /\ \A a \in Nat, f \in 0 .. End : Listed(<< >>, a, f) => a = 0 /\ f = End
<1>1. End \in Nat
  BY InterfaceAssumption DEF End
<1>2. IsSeq(<< >>) /\ Len(<< >>) = 0
  BY EmptySeq DEF IsSeq
<1>3. QED
  BY <1>1, <1>2 DEF Listed

LEMMA TailsAreListed ==
  ASSUME NEW s, NEW f \in 0 .. End, IsTail(s, f)
  PROVE  Listed(s, 0, f)
<1>1. End \in Nat /\ Len(s) = End - f
  BY InterfaceAssumption DEF IsTail, End
<1>2. \A i \in 1 .. End - f : 0 + i = i /\ i \in 1 .. Len(s)
  BY <1>1
<1>3. QED
  BY <1>1, <1>2 DEF IsTail, Listed

-----------------------------------------------------------------------------
(* The releases keep the invariant                                         *)

Releasing(what) ==
  /\ LifeInv /\ phase \notin {"start", "undefined"} /\ todo # << >>
  /\ Release(what) /\ Done

LEMMA Numbers ==
  /\ NumAccounts \in Nat /\ End \in Nat /\ Mid \in 0 .. End /\ Mid < End
  /\ One("nua") \notin Timers /\ One("stdin") \notin Timers \union Ordinary
  /\ One("nua") \notin Ordinary /\ One("nua") # One("stdin")
  /\ Vectors \intersect Kept = {} /\ Vectors \subseteq Ordinary
<1>1. NumAccounts \in Nat /\ End \in Nat /\ Mid \in 0 .. End /\ Mid < End
  BY InterfaceAssumption DEF End, Mid
<1>2. /\ One("nua") \notin Timers /\ One("stdin") \notin Timers
      /\ One("nua") # One("stdin")
  BY DEF Timers, Each, One
<1>3. Vectors \intersect (Kept \union Timers) = {} /\ Vectors \subseteq Parts
  BY DEF Vectors, Kept, One, Parts, SvdParts, Timers, Each
<1>4. QED
  BY <1>1, <1>2, <1>3, NotKept DEF Kept, Ordinary

\* A step of UnwindFromIf
LEMMA UnwindingStep ==
  ASSUME NEW what, Releasing(what), NEW f \in 0 .. End, Running(0, f), f + 1 # Mid,
         \A d \in Ordinary \intersect held : Place(d) = f + 1 => d \in what,
         what \subseteq Ordinary \union {One("stdin")},
         \A r \in what \intersect Ordinary : Place(r) <= f + 1,
         what \ held \subseteq Vectors,
         ptr' \subseteq ptr, ptr \ ptr' \subseteq what,
         ptr' \ (Vectors \union Timers) \subseteq held',
         One("stdin") \in what => passed = Len(ab_create) + Len(svd_create)
  PROVE  LifeInv'
<1> USE Numbers
<1>1. /\ held' = held \ what /\ wrong' = wrong \union (what \ held)
      /\ orphans' = orphans \union {p \in held' \X what : Needs(p[1], p[2])}
      /\ todo' = Tail(todo)
      /\ UNCHANGED <<phase, passed, skipped, requests, ifVars>>
  BY DEF Releasing, Release, Done
<1>2. /\ LifeInv /\ LifeTypeOK /\ Pointers
      /\ phase \notin {"start", "undefined"} /\ todo # << >>
  BY DEF Releasing, LifeInv
<1>3. /\ f + 1 \in 0 .. End /\ Listed(Tail(todo), 0, f + 1)
  BY <1>2, NextOp DEF Running
<1>4. phase \in {"unwind", "end"}
  <2>1. phase # "loop"
    BY <1>3 DEF Running, InLoop
  <2>2. phase # "exit"
    BY <1>2 DEF Running, AfterLoop
  <2>3. QED
    BY <1>2, <2>1, <2>2 DEF LifeTypeOK
<1>5. LifeTypeOK'
  BY <1>1, <1>2 DEF LifeTypeOK
<1>6. Pointers'
  BY <1>1, <1>2 DEF Pointers
<1>7. StdinHeld'
  BY <1>1 DEF StdinHeld, Releasing, LifeInv
<1>8. Ordered(f + 1)'
  <2>1. ASSUME NEW d \in held' \ (Kept \union Timers)
        PROVE  Place(d) > f + 1
    <3>1. d \in held \ (Kept \union Timers) /\ d \notin what
      BY <1>1
    <3>2. Place(d) > f
      BY <1>4, <3>1 DEF Running, Ordered
    <3>3. d \in Ordinary
      BY <1>2, <3>1, NotKept DEF LifeTypeOK
    <3>4. Place(d) # f + 1 /\ Place(d) \in Int
      BY <3>1, <3>3, Places
    <3>5. QED
      BY <3>2, <3>4
  <2>2. QED
    BY <2>1 DEF Ordered
<1>9. One("nua") \in ptr => One("nua") \in ptr'
  BY <1>1
<1>10. TimersGo(0, f + 1)'
  <2>1. ASSUME NEW t \in held' \intersect Timers
        PROVE  phase' = "unwind" /\ f + 1 < Mid /\ One("nua") \in ptr'
    <3>1. t \in held \intersect Timers
      BY <1>1
    <3>2. phase = "unwind" /\ f < Mid /\ One("nua") \in ptr
      BY <1>4, <3>1 DEF Running, TimersGo
    <3>3. QED
      BY <1>1, <1>9, <3>2
  <2>2. QED
    BY <2>1 DEF TimersGo
<1>11. OneShutdown(0)'
  BY <1>1 DEF OneShutdown
<1>12. InLoop(0, f + 1)' /\ AfterLoop(0, f + 1)'
  <2>1. Timers \intersect what = {}
    BY DEF Ordinary
  <2>2. ASSUME phase = "unwind"
        PROVE  requests' = 0 /\ (f + 1 < Mid => Timers \intersect ptr' \subseteq held')
    BY <1>1, <2>1, <2>2 DEF Running, AfterLoop
  <2>3. phase = "end" => requests' > 0 /\ One("nua") \notin ptr'
    BY <1>1 DEF Running, AfterLoop
  <2>4. QED
    BY <1>1, <1>4, <2>2, <2>3 DEF InLoop, AfterLoop
<1>13. Running(0, f + 1)'
  BY <1>1, <1>3, <1>8, <1>10, <1>11, <1>12 DEF Running
<1>14. ReleasedOnce'
  BY <1>1 DEF ReleasedOnce, Releasing, LifeInv
<1>15. DependantsGoFirst'
  <2>1. ASSUME NEW d \in held', NEW r \in what, Needs(d, r)
        PROVE  <<d, r>> \in Excepted
    <3>1. SUFFICES ASSUME <<d, r>> \notin Excepted
                   PROVE  FALSE
      OBVIOUS
    <3>2. d \in held /\ d \in Parts \union Kept
      BY <1>1, <1>2 DEF LifeTypeOK
    <3>3. /\ r \in Ordinary /\ d \in Parts /\ d # One("nua")
          /\ IF d \in Timers THEN Place(r) > Mid ELSE Place(d) < Place(r)
      BY <2>1, <3>1, <3>2, NeedsEarlier
    <3>4. Place(r) <= f + 1 /\ Place(r) \in Int
      BY <3>3, Places
    <3>5. CASE d \in Timers
      <4>1. f < Mid
        BY <1>4, <3>2, <3>5 DEF Running, TimersGo
      <4>2. QED
        BY <3>3, <3>4, <3>5, <4>1
    <3>6. CASE d \notin Timers
      <4>1. d \in Ordinary
        BY <3>3, <3>6 DEF Ordinary
      <4>2. Place(d) > f /\ Place(d) \in Int
        BY <1>4, <3>2, <4>1, NotKept, Places DEF Running, Ordered
      <4>3. QED
        BY <3>3, <3>4, <3>6, <4>2
    <3>7. QED
      BY <3>5, <3>6
  <2>2. {p \in held' \X what : Needs(p[1], p[2])} \subseteq Excepted
    BY <2>1
  <2>3. QED
    BY <1>1, <2>2 DEF DependantsGoFirst, Releasing, LifeInv, Excepted
<1>16. QED
  BY <1>1, <1>2, <1>3, <1>5, <1>6, <1>7, <1>13, <1>14, <1>15 DEF LifeInv

\* A step of svd_shutdown
LEMMA CancellingStep ==
  ASSUME NEW what, NEW a \in Nat \ {0}, NEW f \in 0 .. End,
         LifeInv, phase \notin {"start", "undefined"}, Done, Running(a, f),
         held' = held \ what, wrong' = wrong \union (what \ held),
         UNCHANGED orphans,
         \/ \E t \in Timers : Head(todo) = Cancel(t) /\ what = {t} \intersect ptr
                               /\ ptr' = ptr
         \/ /\ Head(todo) = Do("nua_shutdown") /\ what = {}
            /\ ptr' = ptr \ {One("nua")}
  PROVE  LifeInv'
<1> USE Numbers
<1>1. todo' = Tail(todo) /\ UNCHANGED <<phase, passed, skipped, requests, ifVars>>
  BY DEF Done
<1>2. LifeTypeOK /\ Pointers
  BY DEF LifeInv
<1>3. /\ todo # << >> /\ Head(todo) = todo[1] /\ Listed(todo', a - 1, f)
      /\ \A i \in 1 .. a - 1 : todo'[i] = todo[i + 1]
      /\ 1 \in 1 .. a /\ a - 1 \in Nat
      /\ \A i \in 2 .. a : i - 1 \in 1 .. a - 1 /\ todo'[i - 1] = todo[i]
  <2>1. Listed(todo, a, f)
    BY DEF Running
  <2>2. /\ todo # << >> /\ Head(todo) = todo[1] /\ Listed(todo', a - 1, f)
        /\ \A i \in 1 .. a - 1 : todo'[i] = todo[i + 1]
    BY <1>1, <2>1, NextPrefix
  <2>3. \A i \in 2 .. a : i - 1 \in 1 .. a - 1 /\ (i - 1) + 1 = i
    OBVIOUS
  <2>4. QED
    BY <2>2, <2>3
<1>4. what \subseteq Timers \intersect ptr
  OBVIOUS
<1>5. ~ (phase = "unwind" /\ f < Mid) /\ ~ (phase = "loop" /\ requests = 0)
  BY DEF Running, AfterLoop, InLoop
<1>6. LifeTypeOK'
  BY <1>1, <1>2 DEF LifeTypeOK
<1>7. Pointers'
  <2>1. ptr \ ptr' \subseteq {One("nua")}
    OBVIOUS
  <2>2. QED
    BY <1>2, <1>4, <2>1 DEF Pointers, Kept
<1>8. StdinHeld'
  BY <1>1, <1>4 DEF StdinHeld, LifeInv
<1>9. Ordered(f)'
  BY <1>1 DEF Running, Ordered
<1>10. TimersGo(a - 1, f)'
  <2>1. ASSUME NEW u \in held' \intersect Timers
        PROVE  \E i \in 1 .. a - 1 : todo'[i] = Cancel(u)
    <3>1. u \in held \intersect Timers /\ u \notin what
      OBVIOUS
    <3>2. PICK i \in 1 .. a : todo[i] = Cancel(u)
      BY <1>5, <3>1 DEF Running, TimersGo
    <3>3. u \in ptr
      BY <1>2, <3>1 DEF Pointers, Kept, Timers, Each, One
    <3>4. Head(todo) # Cancel(u)
      BY <3>1, <3>3, Cancels
    <3>5. i \in 2 .. a
      BY <1>3, <3>2, <3>4
    <3>6. QED
      BY <1>3, <3>2, <3>5
  <2>2. QED
    BY <2>1 DEF TimersGo
<1>11. OneShutdown(a - 1)'
  <2>1. SUFFICES ASSUME requests <= 1
                 PROVE  /\ a - 1 <= NumAccounts + 1
                        /\ \A i \in 1 .. a - 1 :
                             /\ todo'[i] = ShutdownOps[NumAccounts + 1 - (a - 1) + i]
                             /\ \A t \in Timers \intersect ptr' :
                                  todo'[i] = Cancel(t) => t \in held'
    BY <1>1 DEF OneShutdown
  <2>2. /\ a <= NumAccounts + 1
        /\ \A i \in 1 .. a : /\ todo[i] = ShutdownOps[NumAccounts + 1 - a + i]
                             /\ \A t \in Timers \intersect ptr :
                                  todo[i] = Cancel(t) => t \in held
    BY <2>1 DEF Running, OneShutdown
  <2>3. ASSUME NEW i \in 1 .. a - 1
        PROVE  /\ todo'[i] = ShutdownOps[NumAccounts + 1 - (a - 1) + i]
               /\ \A t \in Timers \intersect ptr' : todo'[i] = Cancel(t) => t \in held'
    <3>1. /\ i + 1 \in 1 .. a /\ todo'[i] = todo[i + 1]
          /\ NumAccounts + 1 - a + (i + 1) = NumAccounts + 1 - (a - 1) + i
      BY <1>3
    <3>2. todo'[i] = ShutdownOps[NumAccounts + 1 - (a - 1) + i]
      BY <2>2, <3>1
    <3>3. ASSUME NEW t \in Timers \intersect ptr', todo'[i] = Cancel(t)
          PROVE  t \in held'
      <4>1. t \in held
        BY <2>2, <3>1, <3>3
      <4>2. ASSUME t \in what
            PROVE  FALSE
        <5>1. todo[1] = Cancel(t)
          BY <1>3, <4>2
        <5>2. ShutdownOps[NumAccounts + 1 - a + 1] = Cancel(t)
          BY <1>3, <2>2, <5>1
        <5>3. ShutdownOps[NumAccounts + 1 - a + (i + 1)] = Cancel(t)
          BY <3>1, <3>2, <3>3
        <5>4. /\ NumAccounts + 1 - a + 1 \in 1 .. NumAccounts + 1
              /\ NumAccounts + 1 - a + (i + 1) \in 1 .. NumAccounts + 1
          BY <2>2
        <5>5. NumAccounts + 1 - a + 1 = NumAccounts + 1 - a + (i + 1)
          BY <5>2, <5>3, <5>4, Cancels
        <5>6. QED
          BY <5>5
      <4>3. QED
        BY <4>1, <4>2
    <3>4. QED
      BY <3>2, <3>3
  <2>4. QED
    BY <2>2, <2>3
<1>12. InLoop(a - 1, f)'
  <2>1. SUFFICES ASSUME phase = "loop"
                 PROVE  /\ f = End /\ One("stdin") \in held' /\ requests # 0
                        /\ One("nua") \in ptr' =>
                             \E i \in 1 .. a - 1 : todo'[i] = Do("nua_shutdown")
    BY <1>1 DEF InLoop
  <2>2. f = End /\ One("stdin") \in held' /\ requests # 0
    BY <1>4, <1>5, <2>1 DEF Running, InLoop
  <2>3. ASSUME One("nua") \in ptr'
        PROVE  \E i \in 1 .. a - 1 : todo'[i] = Do("nua_shutdown")
    <3>1. Head(todo) # Do("nua_shutdown") /\ One("nua") \in ptr
      BY <2>3, Cancels
    <3>2. requests > 0
      BY <1>2, <2>2 DEF LifeTypeOK
    <3>3. PICK i \in 1 .. a : todo[i] = Do("nua_shutdown")
      BY <2>1, <3>1, <3>2 DEF Running, InLoop
    <3>4. i \in 2 .. a
      BY <1>3, <3>1, <3>3
    <3>5. QED
      BY <1>3, <3>3, <3>4
  <2>4. QED
    BY <2>2, <2>3
<1>13. AfterLoop(a - 1, f)'
  <2>1. phase # "exit"
    BY <1>3 DEF Running, AfterLoop
  <2>2. QED
    BY <1>1, <1>4, <1>5, <2>1 DEF Running, AfterLoop
<1>14. Running(a - 1, f)'
  BY <1>1, <1>3, <1>9, <1>10, <1>11, <1>12, <1>13 DEF Running
<1>15. ReleasedOnce'
  <2>1. CASE what \subseteq held
    BY <1>1, <2>1 DEF ReleasedOnce, LifeInv
  <2>2. CASE ~ (what \subseteq held)
    <3>1. PICK t \in Timers : Head(todo) = Cancel(t) /\ what = {t} \intersect ptr
      BY <2>2
    <3>2. t \in ptr /\ t \notin held
      BY <2>2, <3>1
    <3>3. ~ (requests <= 1)
      BY <1>3, <3>1, <3>2 DEF Running, OneShutdown
    <3>4. requests >= 2
      BY <1>2, <3>3 DEF LifeTypeOK
    <3>5. QED
      BY <1>1, <1>4, <3>4 DEF ReleasedOnce, LifeInv
  <2>3. QED
    BY <2>1, <2>2
<1>16. DependantsGoFirst'
  BY DEF DependantsGoFirst, LifeInv
<1>17. QED
  BY <1>1, <1>3, <1>6, <1>7, <1>8, <1>14, <1>15, <1>16 DEF LifeInv

-----------------------------------------------------------------------------
(* The actions of the unwinding                                            *)

LEMMA ByName ==
  /\ \A p, op : OpAt(p, op) =>
       /\ op[1] \in {"free", "close_ifd", "svd_shutdown", "su_home_deinit"}
       /\ op[1] = "free" => op = <<"free", op[2]>>
       /\ op[1] # "free" => op = Do(op[1])
  /\ \A op : OfShutdown(op) =>
       /\ op[1] \in {"destroy", "nua_shutdown"}
       /\ op[1] = "destroy" => op[2] \in Timers /\ op = Cancel(op[2])
       /\ op[1] = "nua_shutdown" => op = Do("nua_shutdown")
  /\ \A d : <<"free", d>>[1] = "free" /\ <<"free", d>>[2] = d
  /\ \A d, e : <<"free", d>> = <<"free", e>> => d = e
  /\ \A what : Do(what)[1] = what
  /\ Free("root", 0) = <<"free", One("root")>>
<1>1. /\ \A what : Do(what)[1] = what
      /\ \A kind, i : Free(kind, i)[1] = "free"
                      /\ Free(kind, i) = <<"free", Free(kind, i)[2]>>
      /\ \A t : Cancel(t)[1] = "destroy" /\ Cancel(t)[2] = t
      /\ \A d : <<"free", d>>[1] = "free" /\ <<"free", d>>[2] = d
      /\ \A d, e : <<"free", d>> = <<"free", e>> => d = e
      /\ Free("root", 0) = <<"free", One("root")>>
  BY DEF Do, Free, Cancel, One
<1>2. ASSUME NEW p, NEW op, OpAt(p, op)
      PROVE  /\ op[1] \in {"free", "close_ifd", "svd_shutdown", "su_home_deinit"}
             /\ op[1] = "free" => op = <<"free", op[2]>>
             /\ op[1] # "free" => op = Do(op[1])
  <2>1. \/ \E kind, i : op = Free(kind, i)
        \/ \E what \in {"close_ifd", "svd_shutdown", "su_home_deinit"} : op = Do(what)
    BY <1>2 DEF OpAt
  <2>2. QED
    BY <1>1, <2>1
<1>3. ASSUME NEW op, OfShutdown(op)
      PROVE  /\ op[1] \in {"destroy", "nua_shutdown"}
             /\ op[1] = "destroy" => op[2] \in Timers /\ op = Cancel(op[2])
             /\ op[1] = "nua_shutdown" => op = Do("nua_shutdown")
  BY <1>1, <1>3 DEF OfShutdown
<1>4. QED
  BY <1>1, <1>2, <1>3

LEMMA HeadIs ==
  ASSUME LifeInv, NEW name, Runs(name)
  PROVE  /\ phase \notin {"start", "undefined"} /\ todo # << >>
         /\ Head(todo)[1] = name
         /\ \/ \E f \in 0 .. End : /\ Running(0, f) /\ f + 1 \in 0 .. End
                                   /\ OpAt(f + 1, Head(todo))
            \/ \E f \in 0 .. End, a \in Nat \ {0} :
                 Running(a, f) /\ OfShutdown(Head(todo))
<1>1. phase \notin {"start", "undefined"} /\ todo # << >> /\ Head(todo)[1] = name
  BY DEF Runs, LifeInv, Starting
<1>2. PICK a \in Nat, f \in 0 .. End : Running(a, f)
  BY <1>1 DEF LifeInv
<1>3. CASE a = 0
  <2>1. Listed(todo, 0, f)
    BY <1>2, <1>3 DEF Running
  <2>2. QED
    BY <1>1, <1>2, <1>3, <2>1, NextOp
<1>4. CASE a \in Nat \ {0}
  <2>1. Listed(todo, a, f)
    BY <1>2 DEF Running
  <2>2. OfShutdown(Head(todo))
    BY <1>4, <2>1, NextPrefix
  <2>3. QED
    BY <1>1, <1>2, <1>4, <2>2
<1>5. QED
  BY <1>3, <1>4

LEMMA HeldIsKnown ==
  ASSUME LifeInv
  PROVE  /\ Ordinary \intersect held \subseteq ptr
         /\ (Ordinary \intersect ptr) \ Vectors \subseteq held
         /\ ptr \subseteq Parts /\ One("stdin") \notin ptr
<1>1. Ordinary \intersect (Kept \union Timers) = {}
  BY NotKept
<1>2. One("stdin") \notin Parts
  BY Numbers DEF Ordinary
<1>3. QED
  BY <1>1, <1>2 DEF LifeInv, Pointers, LifeTypeOK

LEMMA Together ==
  ASSUME NEW r
  PROVE  /\ GoesWith(r) \subseteq ptr /\ {r} \intersect ptr \subseteq GoesWith(r)
         /\ r = One("root") =>
              {One("dev_wait"), One("if_wait")} \intersect ptr \subseteq GoesWith(r)
         /\ \A d \in GoesWith(r) :
              d = r \/ (r = One("root") /\ d \in {One("dev_wait"), One("if_wait")})
<1>1. CASE r = One("root")
  <2>1. GoesWith(r) = {r, One("dev_wait"), One("if_wait")} \intersect ptr
    BY <1>1, Zenon DEF GoesWith
  <2>2. QED
    BY <1>1, <2>1
<1>2. CASE r # One("root")
  <2>1. GoesWith(r) = {r} \intersect ptr
    BY <1>2, Zenon DEF GoesWith
  <2>2. QED
    BY <1>2, <2>1
<1>3. QED
  BY <1>1, <1>2

LEMMA FreeStep == LifeInv /\ free => LifeInv'
<1> SUFFICES ASSUME LifeInv, free PROVE LifeInv'
  OBVIOUS
<1> USE Numbers
<1> DEFINE r == Head(todo)[2]
<1> DEFINE what == GoesWith(r)
<1>1. Runs("free") /\ Release(what) /\ ptr' = ptr \ what /\ Done
  BY DEF free
<1>2. /\ phase \notin {"start", "undefined"} /\ todo # << >>
      /\ Head(todo)[1] = "free"
  BY <1>1, HeadIs
<1>3. PICK f \in 0 .. End : Running(0, f) /\ OpAt(f + 1, Head(todo))
  <2>1. ~OfShutdown(Head(todo))
    BY <1>2, ByName
  <2>2. QED
    BY <1>1, <2>1, HeadIs
<1>4. Head(todo) = <<"free", r>>
  BY <1>2, <1>3, ByName
<1>5. /\ r \in Ordinary /\ Place(r) <= f + 1 /\ f + 1 # Mid
      /\ r \notin {One("dev_wait"), One("if_wait")}
  <2>1. OpAt(f + 1, <<"free", r>>)
    BY <1>3, <1>4
  <2>2. QED
    BY <2>1, Frees
<1>6. /\ what \subseteq ptr /\ {r} \intersect ptr \subseteq what
      /\ r = One("root") => {One("dev_wait"), One("if_wait")} \intersect ptr \subseteq what
      /\ \A d \in what : d = r \/ (r = One("root") /\ d \in {One("dev_wait"), One("if_wait")})
  BY Together
<1> HIDE DEF r, what
<1>7. {One("dev_wait"), One("if_wait")} \subseteq Ordinary
  <2>1. {One("dev_wait"), One("if_wait")} \subseteq Parts
    BY DEF Parts, SvdParts, IfParts
  <2>2. {One("dev_wait"), One("if_wait")} \intersect (Timers \union {One("nua")}) = {}
    BY DEF Timers, Each, One
  <2>3. QED
    BY <2>1, <2>2 DEF Ordinary
<1>8. what \subseteq Ordinary
  BY <1>5, <1>6, <1>7
<1>9. ASSUME NEW d \in Ordinary \intersect held, Place(d) = f + 1
      PROVE  d \in what
  <2>1. d \in ptr
    BY HeldIsKnown
  <2>2. OpAt(Place(d), <<"free", r>>)
    BY <1>3, <1>4, <1>9
  <2>3. \/ <<"free", r>> = <<"free", d>>
        \/ /\ <<"free", r>> = <<"free", One("root")>>
           /\ d \in {One("dev_wait"), One("if_wait")}
    <3>1. \A name : <<"free", r>> # Do(name) \/ name = "free"
      BY ByName
    <3>2. QED
      BY <2>2, <3>1, Takes, ByName
  <2>4. QED
    BY <1>6, <2>1, <2>3, ByName
<1>10. \A d \in what : Place(d) <= f + 1
  <2>1. Place(One("dev_wait")) = Place(One("root"))
        /\ Place(One("if_wait")) = Place(One("root"))
    BY Positions
  <2>2. QED
    BY <1>5, <1>6, <2>1
<1>11. what \ held \subseteq Vectors
  BY <1>6, <1>8, HeldIsKnown
<1>12. ptr' \ (Vectors \union Timers) \subseteq held'
  BY <1>1 DEF LifeInv, Pointers, Release
<1>13. Releasing(what)
  BY <1>1, <1>2 DEF Releasing
<1>14. One("stdin") \notin what /\ ptr \ ptr' \subseteq what /\ ptr' \subseteq ptr
  BY <1>1, <1>8
<1>15. QED
  BY <1>3, <1>5, <1>8, <1>9, <1>10, <1>11, <1>12, <1>13, <1>14, UnwindingStep

LEMMA HomeStep == LifeInv /\ su_home_deinit => LifeInv'
<1> SUFFICES ASSUME LifeInv, su_home_deinit PROVE LifeInv'
  OBVIOUS
<1> USE Numbers
<1> DEFINE what == held \intersect Vectors
<1>1. Runs("su_home_deinit") /\ Release(what) /\ ptr' = ptr /\ Done
  BY DEF su_home_deinit
<1>2. /\ phase \notin {"start", "undefined"} /\ todo # << >>
      /\ Head(todo)[1] = "su_home_deinit"
  BY <1>1, HeadIs
<1>3. PICK f \in 0 .. End : Running(0, f) /\ OpAt(f + 1, Head(todo))
  <2>1. ~OfShutdown(Head(todo))
    BY <1>2, ByName
  <2>2. QED
    BY <1>1, <2>1, HeadIs
<1>4. Head(todo) = Do("su_home_deinit")
  BY <1>2, <1>3, ByName
<1>5. f + 1 = 5 * NumChans + 5 /\ f + 1 # Mid
  BY <1>3, <1>4, Others, InterfaceAssumption DEF Mid
<1> HIDE DEF what
<1>6. ASSUME NEW d \in Ordinary \intersect held, Place(d) = f + 1
      PROVE  d \in what
  <2>1. OpAt(Place(d), Do("su_home_deinit"))
    BY <1>3, <1>4, <1>6
  <2>2. d \in Vectors
    BY <2>1, Takes, ByName
  <2>3. QED
    BY <2>2 DEF what
<1>7. \A d \in what : Place(d) <= f + 1
  <2>1. \A d \in Vectors : Place(d) = 5 * NumChans + 5
    BY Positions DEF Vectors
  <2>2. QED
    BY <1>5, <2>1, InterfaceAssumption DEF what
<1>8. what \subseteq Vectors /\ what \subseteq held
  BY DEF what
<1>9. ptr' \ (Vectors \union Timers) \subseteq held'
  BY <1>1, <1>8 DEF LifeInv, Pointers, Release
<1>10. Releasing(what)
  BY <1>1, <1>2 DEF Releasing
<1>11. One("stdin") \notin what /\ what \subseteq Ordinary
  BY <1>8
<1>12. what \ held \subseteq Vectors /\ ptr \ ptr' \subseteq what /\ ptr' \subseteq ptr
  BY <1>1, <1>8
<1>13. QED
  BY <1>3, <1>5, <1>6, <1>7, <1>9, <1>10, <1>11, <1>12, UnwindingStep

LEMMA CloseStep == LifeInv /\ close_ifd => LifeInv'
<1> SUFFICES ASSUME LifeInv, close_ifd PROVE LifeInv'
  OBVIOUS
<1> USE Numbers
<1> DEFINE what == IF One("ifd") \in ptr THEN {One("ifd")}
                   ELSE IF passed = Len(ab_create) + Len(svd_create)
                        THEN {One("stdin")} ELSE {}
<1>1. Runs("close_ifd") /\ Release(what) /\ ptr' = ptr \ {One("ifd")} /\ Done
  BY DEF close_ifd
<1>2. /\ phase \notin {"start", "undefined"} /\ todo # << >>
      /\ Head(todo)[1] = "close_ifd"
  BY <1>1, HeadIs
<1>3. PICK f \in 0 .. End : Running(0, f) /\ OpAt(f + 1, Head(todo))
  <2>1. ~OfShutdown(Head(todo))
    BY <1>2, ByName
  <2>2. QED
    BY <1>1, <2>1, HeadIs
<1>4. Head(todo) = Do("close_ifd")
  BY <1>2, <1>3, ByName
<1>5. f = 0 /\ f + 1 = 1 /\ f + 1 # Mid
  <2>1. f + 1 = 1
    BY <1>3, <1>4, Others
  <2>2. QED
    BY <2>1, InterfaceAssumption DEF Mid
<1>6. /\ One("ifd") \in Ordinary /\ One("ifd") # One("stdin")
      /\ One("ifd") \notin Vectors /\ Place(One("ifd")) = 1
  <2>1. One("ifd") \notin Timers /\ One("ifd") # One("nua")
        /\ One("ifd") # One("stdin") /\ One("ifd") \notin Vectors
    BY DEF Timers, Each, One, Vectors
  <2>2. QED
    BY <2>1, Positions DEF Ordinary, Parts, IfParts
<1>7. One("stdin") \in held
  BY <1>3, <1>5 DEF Running, AfterLoop
<1>8. /\ what \subseteq {One("ifd"), One("stdin")}
      /\ One("ifd") \in what <=> One("ifd") \in ptr
      /\ One("stdin") \in what => passed = Len(ab_create) + Len(svd_create)
  BY <1>6
<1> HIDE DEF what
<1>9. ASSUME NEW d \in Ordinary \intersect held, Place(d) = f + 1
      PROVE  d \in what
  <2>1. OpAt(Place(d), Do("close_ifd"))
    BY <1>3, <1>4, <1>9
  <2>2. d = One("ifd")
    BY <2>1, Takes, ByName
  <2>3. QED
    BY <1>8, <2>2, HeldIsKnown
<1>10. \A r \in what \intersect Ordinary : Place(r) <= f + 1
  BY <1>5, <1>6, <1>8
<1>11. what \ held \subseteq Vectors
  BY <1>6, <1>7, <1>8, HeldIsKnown
<1>12. ptr' \ (Vectors \union Timers) \subseteq held'
  <2>1. One("stdin") \notin ptr
    BY HeldIsKnown
  <2>2. QED
    BY <1>1, <1>8, <2>1 DEF LifeInv, Pointers, Release
<1>13. Releasing(what)
  BY <1>1, <1>2 DEF Releasing
<1>14. /\ what \subseteq Ordinary \union {One("stdin")}
       /\ ptr \ ptr' \subseteq what /\ ptr' \subseteq ptr
  BY <1>1, <1>6, <1>8
<1>15. QED
  BY <1>3, <1>5, <1>8, <1>9, <1>10, <1>11, <1>12, <1>13, <1>14, UnwindingStep

LEMMA DestroyStep == LifeInv /\ destroy => LifeInv'
<1> SUFFICES ASSUME LifeInv, destroy PROVE LifeInv'
  OBVIOUS
<1> DEFINE t == Head(todo)[2]
<1> DEFINE what == GoesWith(t)
<1>1. Runs("destroy") /\ Release(what) /\ ptr' = ptr /\ Done
  BY DEF destroy
<1>2. phase \notin {"start", "undefined"} /\ Head(todo)[1] = "destroy"
  BY <1>1, HeadIs
<1>3. PICK f \in 0 .. End, a \in Nat \ {0} : Running(a, f) /\ OfShutdown(Head(todo))
  <2>1. \A p : ~OpAt(p, Head(todo))
    BY <1>2, ByName
  <2>2. QED
    BY <1>1, <2>1, HeadIs
<1>4. t \in Timers /\ Head(todo) = Cancel(t)
  BY <1>2, <1>3, ByName
<1>5. what = {t} \intersect ptr
  <2>1. t # One("root")
    BY <1>4 DEF Timers, Each, One
  <2>2. QED
    BY <2>1 DEF GoesWith
<1> HIDE DEF t, what
<1>6. \A d : ~Needs(d, t)
  BY <1>4 DEF Timers, Each, Needs, One
<1>7. /\ held' = held \ what /\ wrong' = wrong \union (what \ held)
      /\ UNCHANGED orphans
  <2>1. {p \in held' \X what : Needs(p[1], p[2])} = {}
    BY <1>5, <1>6
  <2>2. QED
    BY <1>1, <2>1 DEF Release
<1>8. QED
  BY <1>1, <1>2, <1>3, <1>4, <1>5, <1>7, CancellingStep

LEMMA StackStep == LifeInv /\ nua_shutdown => LifeInv'
<1> SUFFICES ASSUME LifeInv, nua_shutdown PROVE LifeInv'
  OBVIOUS
<1>1. /\ Runs("nua_shutdown") /\ Done /\ ptr' = ptr \ {One("nua")}
      /\ UNCHANGED <<held, wrong, orphans>>
  BY DEF nua_shutdown
<1>2. phase \notin {"start", "undefined"} /\ Head(todo)[1] = "nua_shutdown"
  BY <1>1, HeadIs
<1>3. PICK f \in 0 .. End, a \in Nat \ {0} : Running(a, f) /\ OfShutdown(Head(todo))
  <2>1. \A p : ~OpAt(p, Head(todo))
    BY <1>2, ByName
  <2>2. QED
    BY <1>1, <2>1, HeadIs
<1>4. Head(todo) = Do("nua_shutdown")
  BY <1>2, <1>3, ByName
<1>5. held' = held \ {} /\ wrong' = wrong \union ({} \ held)
  BY <1>1
<1>6. QED
  BY <1>1, <1>2, <1>3, <1>4, <1>5, CancellingStep

-----------------------------------------------------------------------------
(* svd_shutdown, in the unwinding and in the loop                          *)

\* svd_destroy calls svd_shutdown.
LEMMA DestroyShutsDown == LifeInv /\ svd_shutdown => LifeInv'
<1> SUFFICES ASSUME LifeInv, svd_shutdown PROVE LifeInv'
  OBVIOUS
<1> USE Numbers
<1>1. /\ Runs("svd_shutdown")
      /\ todo' = (IF One("nua") \in ptr THEN ShutdownOps ELSE << >>) \o Tail(todo)
      /\ UNCHANGED <<phase, passed, skipped, held, ptr, requests, wrong, orphans, ifVars>>
  BY DEF svd_shutdown
<1>2. /\ phase \notin {"start", "undefined"} /\ todo # << >>
      /\ Head(todo)[1] = "svd_shutdown"
  BY <1>1, HeadIs
<1>3. PICK f \in 0 .. End : Running(0, f) /\ f + 1 \in 0 .. End /\ OpAt(f + 1, Head(todo))
  <2>1. ~OfShutdown(Head(todo))
    BY <1>2, ByName
  <2>2. QED
    BY <1>1, <2>1, HeadIs
<1>4. f + 1 = Mid
  <2>1. Head(todo) = Do("svd_shutdown")
    BY <1>2, <1>3, ByName
  <2>2. QED
    BY <1>3, <2>1, Others
<1>5. Listed(Tail(todo), 0, Mid)
  <2>1. Listed(todo, 0, f)
    BY <1>3 DEF Running
  <2>2. QED
    BY <1>2, <1>4, <2>1, NextOp
<1>6. phase \in {"unwind", "end"}
  <2>1. phase # "loop"
    BY <1>3, <1>4 DEF InLoop, Running
  <2>2. phase # "exit"
    BY <1>2, <1>3 DEF AfterLoop, Running
  <2>3. QED
    BY <1>2, <2>1, <2>2 DEF LifeInv, LifeTypeOK
<1>7. Ordered(Mid)'
  <2>1. ASSUME NEW d \in held \ (Kept \union Timers)
        PROVE  Place(d) > Mid
    <3>1. Place(d) > f
      BY <1>3, <1>6 DEF Running, Ordered
    <3>2. Place(d) # Mid /\ Place(d) \in Int
      <4>1. d \in Ordinary
        BY NotKept DEF LifeInv, LifeTypeOK
      <4>2. QED
        BY <4>1, Places
    <3>3. QED
      BY <1>4, <3>1, <3>2
  <2>2. QED
    BY <1>1, <2>1 DEF Ordered
<1>8. \E a \in Nat : Running(a, Mid)'
  <2>1. CASE One("nua") \notin ptr
    <3>1. todo' = Tail(todo)
      <4>1. PICK S : Tail(todo) \in Seq(S)
        BY <1>5 DEF Listed, IsSeq
      <4>2. QED
        BY <1>1, <2>1, <4>1, ConcatEmptySeq
    <3>2. Listed(todo', 0, Mid)
      BY <1>5, <3>1
    <3>3. held \intersect Timers = {}
      BY <1>3, <1>6, <2>1 DEF Running, TimersGo
    <3>4. TimersGo(0, Mid)'
      BY <1>1, <3>3 DEF TimersGo
    <3>5. OneShutdown(0)' /\ InLoop(0, Mid)'
      BY <1>1, <1>6 DEF OneShutdown, InLoop
    <3>6. AfterLoop(0, Mid)'
      BY <1>1, <1>3, <1>4, <1>6 DEF Running, AfterLoop
    <3>7. QED
      BY <1>7, <3>2, <3>4, <3>5, <3>6 DEF Running
  <2>2. CASE One("nua") \in ptr
    <3> DEFINE a == NumAccounts + 1 + 0
    <3>1. todo' = ShutdownOps \o Tail(todo)
      BY <1>1, <2>2
    <3>2. /\ Listed(todo', a, Mid) /\ a \in Nat
          /\ \A i \in 1 .. NumAccounts + 1 : todo'[i] = ShutdownOps[i]
      BY <1>5, <3>1, NextShutdown
    <3>3. phase = "unwind" /\ requests = 0 /\ Timers \intersect ptr \subseteq held
      BY <1>3, <1>4, <1>6, <2>2 DEF Running, AfterLoop
    <3>4. TimersGo(a, Mid)'
      <4>1. \A t \in Timers : \E i \in 1 .. a : todo'[i] = Cancel(t)
        BY <3>2, Cancels
      <4>2. QED
        BY <1>1, <4>1 DEF TimersGo
    <3>5. OneShutdown(a)'
      <4>1. ASSUME NEW i \in 1 .. a
            PROVE  todo'[i] = ShutdownOps[NumAccounts + 1 - a + i]
        <5>1. i \in 1 .. NumAccounts + 1 /\ NumAccounts + 1 - a + i = i
          OBVIOUS
        <5>2. QED
          BY <3>2, <5>1
      <4>2. a <= NumAccounts + 1
        OBVIOUS
      <4> HIDE DEF a
      <4>3. QED
        BY <1>1, <3>3, <4>1, <4>2 DEF OneShutdown
    <3>6. InLoop(a, Mid)' /\ AfterLoop(a, Mid)'
      BY <1>1, <1>4, <3>3 DEF InLoop, AfterLoop
    <3> HIDE DEF a
    <3>7. QED
      BY <1>7, <3>2, <3>4, <3>5, <3>6 DEF Running
  <2>3. QED
    BY <2>1, <2>2
<1>9. /\ LifeTypeOK' /\ Pointers' /\ StdinHeld' /\ ReleasedOnce' /\ DependantsGoFirst'
  BY <1>1 DEF LifeInv, LifeTypeOK, Pointers, StdinHeld, ReleasedOnce, DependantsGoFirst
<1>10. QED
  BY <1>1, <1>2, <1>8, <1>9 DEF LifeInv

\* A command or a signal calls svd_shutdown.
LEMMA AskedToEnd ==
  ASSUME LifeInv, phase \in {"loop", "end"},
         requests' = requests + 1, todo' = ShutdownOps \o todo,
         UNCHANGED <<phase, passed, held, ptr, wrong, orphans>>
  PROVE  LifeInv'
<1> USE Numbers
<1>1. PICK a \in Nat, f \in 0 .. End : Running(a, f)
  BY DEF LifeInv
<1> DEFINE b == NumAccounts + 1 + a
<1>2. requests \in Nat /\ requests' > 0 /\ requests' \in Nat
  BY DEF LifeInv, LifeTypeOK
<1>3. /\ Listed(todo', b, f) /\ b \in Nat
      /\ \A i \in 1 .. NumAccounts + 1 : todo'[i] = ShutdownOps[i]
  <2>1. Listed(todo, a, f)
    BY <1>1 DEF Running
  <2>2. QED
    BY <2>1, NextShutdown
<1>4. 1 .. NumAccounts + 1 \subseteq 1 .. b /\ 1 .. NumAccounts \subseteq 1 .. NumAccounts + 1
      /\ NumAccounts + 1 \in 1 .. b
  OBVIOUS
<1> HIDE DEF b
<1>5. TimersGo(b, f)'
  <2>1. \A t \in Timers : \E i \in 1 .. b : todo'[i] = Cancel(t)
    BY <1>3, <1>4, Cancels
  <2>2. QED
    BY <2>1 DEF TimersGo
<1>6. OneShutdown(b)'
  <2>1. SUFFICES ASSUME requests' <= 1
                 PROVE  /\ b <= NumAccounts + 1
                        /\ \A i \in 1 .. b : /\ todo'[i] = ShutdownOps[NumAccounts + 1 - b + i]
                                             /\ \A t \in Timers \intersect ptr' :
                                                  todo'[i] = Cancel(t) => t \in held'
    BY DEF OneShutdown
  <2>2. requests = 0
    BY <1>2, <2>1
  <2>3. a = 0 /\ Timers \intersect ptr \subseteq held
    BY <1>1, <2>2 DEF Running, InLoop, AfterLoop
  <2>4. b = NumAccounts + 1
    BY <2>3 DEF b
  <2>5. ASSUME NEW i \in 1 .. b
        PROVE  todo'[i] = ShutdownOps[NumAccounts + 1 - b + i]
    <3>1. i \in 1 .. NumAccounts + 1 /\ NumAccounts + 1 - b + i = i
      BY <2>4
    <3>2. QED
      BY <1>3, <3>1
  <2>6. Timers \intersect ptr' \subseteq held' /\ b <= NumAccounts + 1
    BY <2>3, <2>4
  <2>7. QED
    BY <2>5, <2>6
<1>7. InLoop(b, f)'
  BY <1>1, <1>2, <1>3, <1>4, Shutdowns DEF Running, InLoop
<1>8. AfterLoop(b, f)'
  BY <1>1, <1>2 DEF Running, AfterLoop
<1>9. Ordered(f)'
  BY <1>1 DEF Running, Ordered
<1>10. Running(b, f)'
  BY <1>3, <1>5, <1>6, <1>7, <1>8, <1>9 DEF Running
<1>11. /\ LifeTypeOK' /\ Pointers' /\ StdinHeld' /\ DependantsGoFirst'
  BY <1>2 DEF LifeInv, LifeTypeOK, Pointers, StdinHeld, DependantsGoFirst
<1>12. ReleasedOnce'
  BY <1>2 DEF LifeInv, ReleasedOnce
<1>13. QED
  BY <1>3, <1>10, <1>11, <1>12 DEF LifeInv

LEMMA SameLife == LifeInv /\ UNCHANGED lifeVars => LifeInv'
<1> SUFFICES ASSUME LifeInv, UNCHANGED lifeVars PROVE LifeInv'
  OBVIOUS
<1>1. UNCHANGED <<phase, passed, skipped, held, ptr, todo, requests, wrong, orphans>>
  BY DEF lifeVars
<1>2. /\ LifeTypeOK' /\ Pointers' /\ StdinHeld' /\ ReleasedOnce' /\ DependantsGoFirst'
  BY <1>1 DEF LifeInv, LifeTypeOK, Pointers, StdinHeld, ReleasedOnce, DependantsGoFirst
<1>3. phase' = "start" => Starting'
  BY <1>1 DEF LifeInv, Starting
<1>4. \A a, f : Running(a, f) => Running(a, f)'
  BY <1>1 DEF Running, Ordered, TimersGo, OneShutdown, InLoop, AfterLoop
<1>5. QED
  BY <1>1, <1>2, <1>3, <1>4 DEF LifeInv

LEMMA LoopIsIdle ==
  ASSUME LifeInv, Looping
  PROVE  /\ Running(0, End) /\ phase = "loop" /\ todo = << >>
         /\ One("stdin") \in held
         /\ requests > 0 => /\ held \intersect Timers = {} /\ One("nua") \notin ptr
<1>1. phase = "loop" /\ todo = << >>
  BY DEF Looping
<1>2. PICK a \in Nat, f \in 0 .. End : Running(a, f)
  BY <1>1 DEF LifeInv
<1>3. a = 0 /\ f = End
  <2>1. Listed(<< >>, a, f)
    BY <1>1, <1>2 DEF Running
  <2>2. QED
    BY <2>1, NoOps
<1>4. Running(0, End)
  BY <1>2, <1>3
<1>5. QED
  BY <1>1, <1>4 DEF Running, InLoop, TimersGo

LEMMA CommandStep ==
  ASSUME LifeInv, NEW m, NEW bad, NEW memory, Command(m, bad, memory)
  PROVE  LifeInv'
<1>1. Looping /\ UNCHANGED <<phase, passed, skipped, held, ptr, wrong, orphans>>
  BY DEF Command
<1>2. CASE Accepted(m) /\ m.cmd = "shutdown"
  <2>1. requests' = requests + 1 /\ todo' = ShutdownOps \o << >>
    BY <1>2 DEF Command, Shutdown
  <2>2. todo = << >> /\ phase = "loop"
    BY <1>1 DEF Looping
  <2>3. todo' = ShutdownOps \o todo
    BY <2>1, <2>2
  <2>4. QED
    BY <1>1, <2>1, <2>2, <2>3, AskedToEnd
<1>3. CASE ~ (Accepted(m) /\ m.cmd = "shutdown")
  <2>1. UNCHANGED <<todo, requests>>
    BY <1>3 DEF Command
  <2>2. UNCHANGED lifeVars
    BY <1>1, <2>1 DEF lifeVars
  <2>3. QED
    BY <2>2, SameLife
<1>4. QED
  BY <1>2, <1>3

LEMMA SignalStep == LifeInv /\ term_handler => LifeInv'
<1> SUFFICES ASSUME LifeInv, term_handler PROVE LifeInv'
  OBVIOUS
<1>1. /\ phase \in {"loop", "end"} /\ requests' = requests + 1
      /\ todo' = ShutdownOps \o todo
      /\ UNCHANGED <<passed, skipped, held, ptr, wrong, orphans, ifVars>>
      /\ phase' = phase \/ phase' = "undefined"
  BY DEF term_handler, Shutdown
<1>2. CASE phase' = phase
  BY <1>1, <1>2, AskedToEnd
<1>3. CASE phase' = "undefined"
  <2>1. requests' \in Nat /\ (requests >= 2 => requests' >= 2)
    BY <1>1 DEF LifeInv, LifeTypeOK
  <2>2. /\ LifeTypeOK' /\ Pointers' /\ StdinHeld' /\ ReleasedOnce' /\ DependantsGoFirst'
    BY <1>1, <1>3, <2>1
       DEF LifeInv, LifeTypeOK, Pointers, StdinHeld, ReleasedOnce, DependantsGoFirst
  <2>3. QED
    BY <1>3, <2>2 DEF LifeInv
<1>4. QED
  BY <1>1, <1>2, <1>3

\* The first answer of the stack ends the loop: what there is, is in its place.
LEMMA EndStep == LifeInv /\ svd_r_shutdown => LifeInv'
<1> SUFFICES ASSUME LifeInv, svd_r_shutdown PROVE LifeInv'
  OBVIOUS
<1> USE Numbers
<1>1. /\ Looping /\ requests > 0 /\ phase' = "end" /\ todo' = UnwindFromIf
      /\ UNCHANGED <<passed, skipped, held, ptr, requests, wrong, orphans>>
  BY DEF svd_r_shutdown
<1>2. /\ held \intersect Timers = {} /\ One("nua") \notin ptr /\ One("stdin") \in held
  BY <1>1, LoopIsIdle
<1>3. 0 \in 0 .. End /\ Listed(todo', 0, 0)
  BY <1>1, Unwindings, TailsAreListed
<1>4. Ordered(0)'
  <2>1. \A d \in held \ (Kept \union Timers) : d \in Ordinary
    BY NotKept DEF LifeInv, LifeTypeOK
  <2>2. \A d \in held \ (Kept \union Timers) : Place(d) > 0
    BY <2>1, Places
  <2>3. QED
    BY <1>1, <2>2 DEF Ordered
<1>5. TimersGo(0, 0)' /\ OneShutdown(0)' /\ InLoop(0, 0)'
  BY <1>1, <1>2 DEF TimersGo, OneShutdown, InLoop
<1>6. AfterLoop(0, 0)'
  BY <1>1, <1>2 DEF AfterLoop
<1>7. Running(0, 0)'
  BY <1>3, <1>4, <1>5, <1>6 DEF Running
<1>8. /\ LifeTypeOK' /\ Pointers' /\ StdinHeld' /\ ReleasedOnce' /\ DependantsGoFirst'
  BY <1>1 DEF LifeInv, LifeTypeOK, Pointers, StdinHeld, ReleasedOnce, DependantsGoFirst
<1>9. QED
  BY <1>1, <1>3, <1>7, <1>8 DEF LifeInv

\* An unwinding that is over has left no timer and nothing in its place.
LEMMA AllDone ==
  ASSUME LifeInv, phase \in {"unwind", "end", "exit"}, todo = << >>
  PROVE  Running(0, End) /\ held \subseteq Kept
<1> USE Numbers
<1>1. PICK a \in Nat, f \in 0 .. End : Running(a, f)
  BY DEF LifeInv
<1>2. a = 0 /\ f = End
  <2>1. Listed(<< >>, a, f)
    BY <1>1 DEF Running
  <2>2. QED
    BY <2>1, NoOps
<1>3. Running(0, End)
  BY <1>1, <1>2
<1>4. held \intersect Timers = {}
  BY <1>3 DEF Running, TimersGo
<1>5. ASSUME NEW d \in held \ (Kept \union Timers)
      PROVE  FALSE
  <2>1. Place(d) > End
    BY <1>3 DEF Running, Ordered
  <2>2. d \in Ordinary
    BY NotKept DEF LifeInv, LifeTypeOK
  <2>3. QED
    BY <2>1, <2>2, Places
<1>6. QED
  BY <1>3, <1>4, <1>5

LEMMA ExitStep == LifeInv /\ Exits => LifeInv'
<1> SUFFICES ASSUME LifeInv, Exits PROVE LifeInv'
  OBVIOUS
<1> USE Numbers
<1>1. /\ phase \in {"unwind", "end"} /\ todo = << >> /\ phase' = "exit"
      /\ UNCHANGED <<passed, skipped, held, ptr, todo, requests, wrong, orphans, ifVars>>
  BY DEF Exits
<1>2. Running(0, End) /\ held \subseteq Kept
  BY <1>1, AllDone
<1>3. Running(0, End)'
  <2>1. held \intersect Timers = {} /\ held \ (Kept \union Timers) = {}
    BY <1>2, NotKept DEF Kept, Timers, Each, One
  <2>2. Listed(todo', 0, End) /\ Ordered(End)' /\ TimersGo(0, End)'
    BY <1>1, <1>2, <2>1 DEF Running, Ordered, TimersGo
  <2>3. OneShutdown(0)' /\ InLoop(0, End)' /\ AfterLoop(0, End)'
    BY <1>1, <1>2 DEF Running, OneShutdown, InLoop, AfterLoop
  <2>4. QED
    BY <2>2, <2>3 DEF Running
<1>4. /\ LifeTypeOK' /\ Pointers' /\ StdinHeld' /\ ReleasedOnce' /\ DependantsGoFirst'
  BY <1>1 DEF LifeInv, LifeTypeOK, Pointers, StdinHeld, ReleasedOnce, DependantsGoFirst
<1>5. QED
  BY <1>1, <1>3, <1>4 DEF LifeInv

-----------------------------------------------------------------------------
(* The steps of the start                                                  *)

Musts(G) == {Must(get) : get \in SUBSET G}
SvdBase == <<Must({One("svd")}), Must({})>> \o svd_conf_init \o svd_root
ToChans == SvdBase \o svd_chans_init
ToWait == ToChans \o attach_dev_cb
ToNua == ToWait \o <<Must({One("nua")})>>

LEMMA Records ==
  /\ \A get : Must(get).get = get /\ Must(get).may = FALSE
  /\ \A get, n : May(get, n).get = get /\ May(get, n).may /\ May(get, n).skip = n
  BY DEF Must, May

LEMMA InMusts ==
  ASSUME NEW G, NEW x \in Musts(G)
  PROVE  x.get \subseteq G /\ ~x.may
<1>1. PICK get \in SUBSET G : x = Must(get)
  BY DEF Musts
<1>2. QED
  BY <1>1, Records

LEMMA Joined ==
  ASSUME NEW S, NEW s \in Seq(S), NEW t \in Seq(S)
  PROVE  s \o t \in Seq(S) /\ Len(s \o t) = Len(s) + Len(t)
  BY ConcatProperties

LEMMA AbSteps ==
  /\ ab_create \in Seq(Musts(AbParts)) /\ Len(ab_create) = 2 * NumChans + 5
<1> DEFINE first == <<Must({}), Must({One("ab")}), Must({One("chans"), One("devs")}),
                      Must({One("dev_fd")})>>
<1> DEFINE step(k) == Must(IF k % 2 = 1 THEN {<<"chan_fd", k \div 2>>} ELSE {})
<1>1. NumChans \in Nat /\ 2 * NumChans \in Nat
  BY InterfaceAssumption
<1>2. first \in Seq(Musts(AbParts)) /\ Len(first) = 4
  <2>1. /\ Must({}) \in Musts(AbParts) /\ Must({One("ab")}) \in Musts(AbParts)
        /\ Must({One("chans"), One("devs")}) \in Musts(AbParts)
        /\ Must({One("dev_fd")}) \in Musts(AbParts)
    BY DEF Musts, AbParts
  <2>2. QED
    BY <2>1
<1>3. ab_chans \in Seq(Musts(AbParts)) /\ Len(ab_chans) = 2 * NumChans
  <2>1. ASSUME NEW k \in 1 .. 2 * NumChans
        PROVE  step(k) \in Musts(AbParts)
    <3>1. k % 2 = 1 => k \div 2 \in 0 .. NumChans - 1
      BY <1>1
    <3>2. k % 2 = 1 => <<"chan_fd", k \div 2>> \in AbParts
      BY <3>1 DEF AbParts, Each
    <3>3. (IF k % 2 = 1 THEN {<<"chan_fd", k \div 2>>} ELSE {}) \subseteq AbParts
      BY <3>2
    <3>4. QED
      BY <3>3 DEF Musts
  <2>2. ab_chans = [k \in 1 .. 2 * NumChans |-> step(k)]
    BY DEF ab_chans
  <2> HIDE DEF step
  <2>3. ab_chans \in [1 .. 2 * NumChans -> Musts(AbParts)]
    BY <2>1, <2>2
  <2>4. ab_chans \in Seq(Musts(AbParts))
    BY <1>1, <2>3, SeqDef
  <2>5. QED
    BY <1>1, <2>3, <2>4, Tabulated
<1>4. tapi_dev_start \in Seq(Musts(AbParts)) /\ Len(tapi_dev_start) = 1
  <2>1. Must({}) \in Musts(AbParts)
    BY DEF Musts
  <2>2. QED
    BY <2>1 DEF tapi_dev_start
<1>5. ab_create = (first \o ab_chans) \o tapi_dev_start
  BY DEF ab_create
<1> HIDE DEF first
<1>6. first \o ab_chans \in Seq(Musts(AbParts)) /\ Len(first \o ab_chans) = 4 + 2 * NumChans
  BY <1>2, <1>3, Joined
<1>7. /\ (first \o ab_chans) \o tapi_dev_start \in Seq(Musts(AbParts))
      /\ Len((first \o ab_chans) \o tapi_dev_start)
           = Len(first \o ab_chans) + Len(tapi_dev_start)
  BY <1>4, <1>6, Joined
<1>8. QED
  BY <1>1, <1>4, <1>5, <1>6, <1>7

LEMMA BaseSteps ==
  /\ SvdBase \in Seq(Musts({One("svd"), One("root")} \union Vectors))
  /\ Len(SvdBase) = 7
<1> DEFINE G == {One("svd"), One("root")} \union Vectors
<1> DEFINE first == <<Must({One("svd")}), Must({})>>
<1>1. /\ Must({}) \in Musts(G) /\ Must({One("svd")}) \in Musts(G)
      /\ Must({One("root")}) \in Musts(G) /\ Must({One("sip_account")}) \in Musts(G)
      /\ Must({One("dial_plan")}) \in Musts(G)
  BY DEF Musts, Vectors
<1> HIDE DEF G
<1>2. first \in Seq(Musts(G)) /\ Len(first) = 2
  BY <1>1
<1>3. svd_conf_init \in Seq(Musts(G)) /\ Len(svd_conf_init) = 3
  BY <1>1 DEF svd_conf_init
<1>4. svd_root \in Seq(Musts(G)) /\ Len(svd_root) = 2
  BY <1>1 DEF svd_root
<1>5. SvdBase = (first \o svd_conf_init) \o svd_root
  BY DEF SvdBase
<1> HIDE DEF first
<1> DEFINE S == Seq(Musts(G))
<1>6. first \o svd_conf_init \in S /\ Len(first \o svd_conf_init) = 5
  <2>1. first \in S /\ svd_conf_init \in S
    BY <1>2, <1>3
  <2>2. /\ first \o svd_conf_init \in S
        /\ Len(first \o svd_conf_init) = Len(first) + Len(svd_conf_init)
    BY <2>1, Joined
  <2>3. QED
    BY <1>2, <1>3, <2>2
<1>7. SvdBase \in S /\ Len(SvdBase) = 7
  <2>1. svd_root \in S
    BY <1>4
  <2>2. /\ (first \o svd_conf_init) \o svd_root \in S
        /\ Len((first \o svd_conf_init) \o svd_root)
             = Len(first \o svd_conf_init) + Len(svd_root)
    BY <1>6, <2>1, Joined
  <2>3. QED
    BY <1>4, <1>5, <1>6, <2>2
<1>8. QED
  BY <1>7 DEF G

LEMMA ChanSteps ==
  /\ IsSeq(svd_chans_init) /\ Len(svd_chans_init) = 5 * NumChans
  /\ \A k \in 1 .. 5 * NumChans :
       LET x == svd_chans_init[k] IN
       /\ x.get \subseteq ChanParts
       /\ x.may => x.skip \in Nat /\ k + x.skip <= 5 * NumChans
<1>1. 5 * NumChans \in Nat
  BY InterfaceAssumption
<1>2. IsSeq(svd_chans_init) /\ Len(svd_chans_init) = 5 * NumChans
  <2>1. svd_chans_init \in
          [1 .. 5 * NumChans -> {svd_chans_init[k] : k \in 1 .. 5 * NumChans}]
    BY DEF svd_chans_init
  <2>2. QED
    BY <1>1, <2>1, Tabulated
<1>3. ASSUME NEW c \in Chan, NEW k \in 0 .. 4
      PROVE  /\ ChanStep(c, k).get \subseteq ChanParts
             /\ ChanStep(c, k).may => /\ ChanStep(c, k).skip \in Nat
                                      /\ k + ChanStep(c, k).skip <= 4
  <2>1. /\ {<<"ctx", c>>} \subseteq ChanParts /\ {<<"local_wait", c>>} \subseteq ChanParts
        /\ {<<"rtp_sfd", c>>} \subseteq ChanParts /\ {<<"remote_wait", c>>} \subseteq ChanParts
        /\ {<<"dtmf_tmr", c>>} \subseteq ChanParts
    BY DEF ChanParts, ChanKind
  <2>2. k = 0 => ChanStep(c, k) = Must({<<"ctx", c>>})
    BY DEF ChanStep
  <2>3. k = 1 => ChanStep(c, k) = May({<<"local_wait", c>>}, 2)
    BY DEF ChanStep
  <2>4. k = 2 => ChanStep(c, k) = May({<<"rtp_sfd", c>>}, 1)
    BY DEF ChanStep
  <2>5. k = 3 => ChanStep(c, k) = May({<<"remote_wait", c>>}, 0)
    BY DEF ChanStep
  <2>6. k = 4 => ChanStep(c, k) = May({<<"dtmf_tmr", c>>}, 0)
    BY DEF ChanStep
  <2>7. k = 0 \/ k = 1 \/ k = 2 \/ k = 3 \/ k = 4
    OBVIOUS
  <2>8. QED
    BY <2>1, <2>2, <2>3, <2>4, <2>5, <2>6, <2>7, Records
<1>4. ASSUME NEW k \in 1 .. 5 * NumChans
      PROVE  LET x == svd_chans_init[k] IN
             /\ x.get \subseteq ChanParts
             /\ x.may => x.skip \in Nat /\ k + x.skip <= 5 * NumChans
  <2> DEFINE c == (k - 1) \div 5
  <2> DEFINE m == (k - 1) % 5
  <2>1. c \in Chan /\ m \in 0 .. 4 /\ k = 5 * c + m + 1
    BY FiveEach, InterfaceAssumption DEF Chan
  <2>2. svd_chans_init[k] = ChanStep(c, m)
    BY DEF svd_chans_init
  <2> HIDE DEF c, m
  <2>3. c \in 0 .. NumChans - 1
    BY <2>1 DEF Chan
  <2>4. QED
    BY <1>3, <2>1, <2>2, <2>3, InterfaceAssumption
<1>5. QED
  BY <1>2, <1>4

LEMMA TimerSteps ==
  /\ IsSeq(svd_refresh_registration) /\ Len(svd_refresh_registration) = NumAccounts
  /\ \A k \in 1 .. NumAccounts :
       LET x == svd_refresh_registration[k] IN
       x.get \subseteq Timers /\ x.may /\ x.skip = 0
<1>1. svd_refresh_registration \in
        [1 .. NumAccounts -> {svd_refresh_registration[k] : k \in 1 .. NumAccounts}]
  BY DEF svd_refresh_registration
<1>2. ASSUME NEW k \in 1 .. NumAccounts
      PROVE  LET x == svd_refresh_registration[k] IN
             x.get \subseteq Timers /\ x.may /\ x.skip = 0
  <2>1. svd_refresh_registration[k] = May({<<"reg_tmr", k - 1>>}, 0)
    BY DEF svd_refresh_registration
  <2>2. <<"reg_tmr", k - 1>> \in Timers
    BY InterfaceAssumption DEF Timers, Each
  <2>3. QED
    BY <2>1, <2>2, Records
<1>3. QED
  BY <1>1, <1>2, Tabulated, InterfaceAssumption

LEMMA SvdSteps ==
  /\ IsSeq(svd_create) /\ Len(svd_create) = 5 * NumChans + 9 + NumAccounts
  /\ \A i \in 1 .. Len(svd_create) :
       \/ i <= 7 /\ svd_create[i] = SvdBase[i]
       \/ i - 7 \in 1 .. 5 * NumChans /\ svd_create[i] = svd_chans_init[i - 7]
       \/ i = 5 * NumChans + 8 /\ svd_create[i] = Must({One("dev_wait")})
       \/ i = 5 * NumChans + 9 /\ svd_create[i] = Must({One("nua")})
       \/ /\ i - (5 * NumChans + 9) \in 1 .. NumAccounts
          /\ svd_create[i] = svd_refresh_registration[i - (5 * NumChans + 9)]
<1> DEFINE N5 == 5 * NumChans
<1> DEFINE nua == <<Must({One("nua")})>>
<1>1. N5 \in Nat /\ NumAccounts \in Nat
  BY InterfaceAssumption
<1>2. IsSeq(SvdBase) /\ Len(SvdBase) = 7
  BY BaseSteps DEF IsSeq
<1>3. IsSeq(svd_chans_init) /\ Len(svd_chans_init) = N5
  BY ChanSteps
<1>4. IsSeq(attach_dev_cb) /\ Len(attach_dev_cb) = 1 /\ attach_dev_cb[1] = Must({One("dev_wait")})
  <2>1. attach_dev_cb \in Seq({Must({One("dev_wait")})})
    BY DEF attach_dev_cb
  <2>2. QED
    BY <2>1 DEF attach_dev_cb, IsSeq
<1>5. IsSeq(nua) /\ Len(nua) = 1 /\ nua[1] = Must({One("nua")})
  <2>1. nua \in Seq({Must({One("nua")})})
    OBVIOUS
  <2>2. QED
    BY <2>1 DEF IsSeq
<1>6. ToNua = ToWait \o nua /\ svd_create = ToNua \o svd_refresh_registration
  BY DEF svd_create, ToNua, ToWait, ToChans, SvdBase
<1> HIDE DEF N5, nua
<1>7. /\ IsSeq(ToChans) /\ Len(ToChans) = 7 + N5
      /\ \A i \in 1 .. 7 + N5 : ToChans[i] = IF i <= 7 THEN SvdBase[i] ELSE svd_chans_init[i - 7]
  <2>1. IsSeq(SvdBase) /\ IsSeq(svd_chans_init)
    BY <1>2, <1>3
  <2>2. IsSeq(ToChans) /\ Len(ToChans) = Len(SvdBase) + Len(svd_chans_init)
    BY <2>1, Concat DEF ToChans
  <2>3. \A i \in 1 .. Len(SvdBase) + Len(svd_chans_init) :
          ToChans[i] = IF i <= Len(SvdBase) THEN SvdBase[i]
                       ELSE svd_chans_init[i - Len(SvdBase)]
    BY <2>1, Concat DEF ToChans
  <2>4. QED
    BY <1>2, <1>3, <2>2, <2>3
<1>8. /\ IsSeq(ToWait) /\ Len(ToWait) = 8 + N5
      /\ \A i \in 1 .. 8 + N5 : ToWait[i] = IF i <= 7 + N5 THEN ToChans[i]
                                            ELSE attach_dev_cb[i - (7 + N5)]
  <2>1. IsSeq(ToChans) /\ IsSeq(attach_dev_cb)
    BY <1>4, <1>7
  <2>2. IsSeq(ToWait) /\ Len(ToWait) = Len(ToChans) + Len(attach_dev_cb)
    BY <2>1, Concat DEF ToWait
  <2>3. \A i \in 1 .. Len(ToChans) + Len(attach_dev_cb) :
          ToWait[i] = IF i <= Len(ToChans) THEN ToChans[i]
                      ELSE attach_dev_cb[i - Len(ToChans)]
    BY <2>1, Concat DEF ToWait
  <2>4. (7 + N5) + 1 = 8 + N5
    BY <1>1
  <2>5. QED
    BY <1>4, <1>7, <2>2, <2>3, <2>4
<1>9. /\ IsSeq(ToNua) /\ Len(ToNua) = 9 + N5
      /\ \A i \in 1 .. 9 + N5 : ToNua[i] = IF i <= 8 + N5 THEN ToWait[i] ELSE nua[i - (8 + N5)]
  <2>1. IsSeq(ToWait) /\ IsSeq(nua)
    BY <1>5, <1>8
  <2>2. IsSeq(ToNua) /\ Len(ToNua) = Len(ToWait) + Len(nua)
    BY <1>6, <2>1, Concat
  <2>3. \A i \in 1 .. Len(ToWait) + Len(nua) :
          ToNua[i] = IF i <= Len(ToWait) THEN ToWait[i] ELSE nua[i - Len(ToWait)]
    BY <1>6, <2>1, Concat
  <2>4. (8 + N5) + 1 = 9 + N5
    BY <1>1
  <2>5. QED
    BY <1>5, <1>8, <2>2, <2>3, <2>4
<1>10. /\ IsSeq(svd_create) /\ Len(svd_create) = (9 + N5) + NumAccounts
       /\ \A i \in 1 .. (9 + N5) + NumAccounts :
            svd_create[i] = IF i <= 9 + N5 THEN ToNua[i]
                            ELSE svd_refresh_registration[i - (9 + N5)]
  <2> DEFINE reg == svd_refresh_registration
  <2>1. IsSeq(ToNua) /\ IsSeq(reg) /\ Len(reg) = NumAccounts
    BY <1>9, TimerSteps
  <2>2. IsSeq(svd_create) /\ Len(svd_create) = Len(ToNua) + Len(reg)
    BY <1>6, <2>1, Concat
  <2>3. \A i \in 1 .. Len(ToNua) + Len(reg) :
          svd_create[i] = IF i <= Len(ToNua) THEN ToNua[i] ELSE reg[i - Len(ToNua)]
    BY <1>6, <2>1, Concat
  <2>4. QED
    BY <1>9, <2>1, <2>2, <2>3
<1>11. ASSUME NEW i \in 1 .. (9 + N5) + NumAccounts
       PROVE  \/ i <= 7 /\ svd_create[i] = SvdBase[i]
              \/ i - 7 \in 1 .. N5 /\ svd_create[i] = svd_chans_init[i - 7]
              \/ i = N5 + 8 /\ svd_create[i] = Must({One("dev_wait")})
              \/ i = N5 + 9 /\ svd_create[i] = Must({One("nua")})
              \/ /\ i - (N5 + 9) \in 1 .. NumAccounts
                 /\ svd_create[i] = svd_refresh_registration[i - (N5 + 9)]
  <2>1. CASE i <= 7
    BY <1>1, <1>7, <1>8, <1>9, <1>10, <2>1
  <2>2. CASE i > 7 /\ i <= 7 + N5
    BY <1>1, <1>7, <1>8, <1>9, <1>10, <2>2
  <2>3. CASE i = 8 + N5
    <3>1. i - (7 + N5) = 1
      BY <1>1, <2>3
    <3>2. QED
      BY <1>1, <1>4, <1>8, <1>9, <1>10, <2>3, <3>1
  <2>4. CASE i = 9 + N5
    <3>1. i - (8 + N5) = 1
      BY <1>1, <2>4
    <3>2. QED
      BY <1>1, <1>5, <1>9, <1>10, <2>4, <3>1
  <2>5. CASE i > 9 + N5
    BY <1>1, <1>10, <2>5
  <2>6. QED
    BY <1>1, <2>1, <2>2, <2>3, <2>4, <2>5
<1>12. (9 + N5) + NumAccounts = N5 + 9 + NumAccounts
  BY <1>1
<1>13. QED
  BY <1>10, <1>11, <1>12 DEF N5

LEMMA InterfaceSteps ==
  svd_create_interface \in Seq(Musts(IfParts)) /\ Len(svd_create_interface) = 4
<1>1. /\ Must({}) \in Musts(IfParts) /\ Must({One("ifd")}) \in Musts(IfParts)
      /\ Must({One("if_name")}) \in Musts(IfParts)
      /\ Must({One("if_wait")}) \in Musts(IfParts)
  BY DEF Musts, IfParts
<1>2. QED
  BY <1>1 DEF svd_create_interface

\* Where in the plan each step is
LEMMA PlanSteps ==
  /\ Len(Plan) = Len(ab_create) + Len(svd_create) + 4
  /\ Len(ab_create) \in Nat /\ Len(svd_create) = 5 * NumChans + 9 + NumAccounts
  /\ \A n \in 1 .. Len(Plan) :
       \/ n \in 1 .. Len(ab_create) /\ Plan[n] = ab_create[n]
       \/ /\ n - Len(ab_create) \in 1 .. Len(svd_create)
          /\ Plan[n] = svd_create[n - Len(ab_create)]
       \/ /\ n - (Len(ab_create) + Len(svd_create)) \in 1 .. 4
          /\ Plan[n] = svd_create_interface[n - (Len(ab_create) + Len(svd_create))]
<1> DEFINE A == Len(ab_create)
<1> DEFINE S == Len(svd_create)
<1> DEFINE toIf == ab_create \o svd_create
<1>1. IsSeq(ab_create) /\ IsSeq(svd_create) /\ IsSeq(svd_create_interface)
  BY AbSteps, SvdSteps, InterfaceSteps DEF IsSeq
<1>2. A \in Nat /\ S \in Nat /\ Len(svd_create_interface) = 4
  BY <1>1, InterfaceSteps DEF IsSeq
<1>3. IsSeq(toIf) /\ Len(toIf) = A + S
  BY <1>1, Concat
<1>4. \A i \in 1 .. A + S : toIf[i] = IF i <= A THEN ab_create[i] ELSE svd_create[i - A]
  BY <1>1, Concat
<1>5. Plan = toIf \o svd_create_interface
  BY DEF Plan
<1> HIDE DEF A, S, toIf
<1>6. Len(Plan) = (A + S) + 4
  <2>1. Len(toIf \o svd_create_interface) = Len(toIf) + Len(svd_create_interface)
    BY <1>1, <1>3, Concat
  <2>2. QED
    BY <1>2, <1>3, <1>5, <2>1
<1>7. \A i \in 1 .. (A + S) + 4 :
        Plan[i] = IF i <= A + S THEN toIf[i] ELSE svd_create_interface[i - (A + S)]
  <2>1. \A i \in 1 .. Len(toIf) + Len(svd_create_interface) :
          Plan[i] = IF i <= Len(toIf) THEN toIf[i] ELSE svd_create_interface[i - Len(toIf)]
    BY <1>1, <1>3, <1>5, Concat
  <2>2. QED
    BY <1>2, <1>3, <2>1
<1>8. ASSUME NEW n \in 1 .. (A + S) + 4
      PROVE  \/ n \in 1 .. A /\ Plan[n] = ab_create[n]
             \/ n - A \in 1 .. S /\ Plan[n] = svd_create[n - A]
             \/ n - (A + S) \in 1 .. 4 /\ Plan[n] = svd_create_interface[n - (A + S)]
  <2>1. CASE n <= A
    BY <1>2, <1>4, <1>7, <2>1
  <2>2. CASE n > A /\ n <= A + S
    BY <1>2, <1>4, <1>7, <2>2
  <2>3. CASE n > A + S
    BY <1>2, <1>7, <2>3
  <2>4. QED
    BY <1>2, <2>1, <2>2, <2>3
<1>9. QED
  BY <1>2, <1>6, <1>8, SvdSteps DEF A, S

\* What step n of the start acquires, and what it skips when it fails
StepIs(n, x) ==
  /\ x.get \subseteq Parts
  /\ n <= Len(ab_create) => x.get \subseteq AbParts
  /\ n <= Len(ab_create) + Len(svd_create) => x.get \intersect IfParts = {}
  /\ n < NuaStep => x.get \intersect Timers = {}
  /\ n = NuaStep => One("nua") \in x.get /\ ~x.may
  /\ x.may => /\ x.skip \in Nat /\ n + x.skip < Len(Plan)
              /\ n < NuaStep => n + x.skip < NuaStep

LEMMA Disjoint ==
  /\ AbParts \intersect IfParts = {} /\ AbParts \intersect Timers = {}
  /\ SvdParts \intersect IfParts = {}
  /\ (SvdParts \ Timers) \intersect Timers = {}
  /\ {One("svd"), One("root"), One("dev_wait"), One("nua")} \intersect Timers = {}
  /\ Vectors \intersect Timers = {} /\ ChanParts \intersect Timers = {}
<1>1. \A d \in Timers : d[1] = "reg_tmr"
  BY DEF Timers, Each
<1>2. \A d \in ChanParts : d[1] \in ChanKind
  BY DEF ChanParts
<1>3. \A d \in AbParts : d[1] \in {"ab", "chans", "devs", "dev_fd", "chan_fd"}
  BY DEF AbParts, Each, One
<1>4. \A d \in IfParts : d[1] \in {"ifd", "if_name", "if_wait"}
  BY DEF IfParts, One
<1>5. \A d \in Vectors : d[1] \in {"sip_account", "dial_plan"}
  BY DEF Vectors, One
<1>6. \A d \in {One("svd"), One("root"), One("dev_wait"), One("nua")} :
        d[1] \in {"svd", "root", "dev_wait", "nua"}
  BY DEF One
<1>7. \A d \in SvdParts : d[1] \notin {"ifd", "if_name", "if_wait"}
  BY <1>1, <1>2, <1>5, <1>6 DEF SvdParts, ChanKind
<1>8. QED
  BY <1>1, <1>2, <1>3, <1>4, <1>5, <1>6, <1>7 DEF ChanKind

LEMMA StepsAre ==
  ASSUME NEW n \in 1 .. Len(Plan)
  PROVE  StepIs(n, Plan[n])
<1> DEFINE A == Len(ab_create)
<1> DEFINE S == Len(svd_create)
<1> DEFINE N5 == 5 * NumChans
<1>1. /\ A \in Nat /\ N5 \in Nat /\ NumAccounts \in Nat /\ n \in Nat
      /\ S = N5 + 9 + NumAccounts /\ NuaStep = A + N5 + 9 /\ Len(Plan) = A + S + 4
      /\ n >= 1
  BY PlanSteps, InterfaceAssumption DEF NuaStep
<1>2. AbParts \subseteq Parts /\ SvdParts \subseteq Parts /\ IfParts \subseteq Parts
  BY DEF Parts
<1>3. \/ n \in 1 .. A /\ Plan[n] = ab_create[n]
      \/ n - A \in 1 .. S /\ Plan[n] = svd_create[n - A]
      \/ n - (A + S) \in 1 .. 4 /\ Plan[n] = svd_create_interface[n - (A + S)]
  BY PlanSteps
<1> DEFINE x == Plan[n]
<1>4. SUFFICES StepIs(n, x)
  OBVIOUS
<1> HIDE DEF A, S, N5, x
<1>5. CASE n \in 1 .. A /\ x = ab_create[n]
  <2>1. x \in Musts(AbParts)
    BY <1>5, AbSteps, ElementOfSeq DEF A
  <2>2. x.get \subseteq AbParts /\ ~x.may
    BY <2>1, InMusts
  <2>3. n # NuaStep
    BY <1>1, <1>5
  <2>4. QED
    BY <1>2, <2>2, <2>3, Disjoint DEF StepIs
<1>6. CASE n - A \in 1 .. S /\ x = svd_create[n - A]
  <2> DEFINE i == n - A
  <2>1. /\ i \in 1 .. S /\ x = svd_create[i] /\ n = A + i /\ i \in Nat
        /\ ~ (n <= A) /\ n <= A + S
    BY <1>1, <1>6
  <2> HIDE DEF i
  <2>2. SUFFICES /\ x.get \subseteq SvdParts
                 /\ i < N5 + 9 => x.get \intersect Timers = {}
                 /\ i = N5 + 9 => One("nua") \in x.get /\ ~x.may
                 /\ x.may => /\ x.skip \in Nat /\ i + x.skip < S + 4
                             /\ i < N5 + 9 => i + x.skip < N5 + 9
    <3>1. (n < NuaStep <=> i < N5 + 9) /\ (n = NuaStep <=> i = N5 + 9)
      BY <1>1, <2>1
    <3>2. \A k \in Nat : /\ i + k < S + 4 => n + k < Len(Plan)
                         /\ i + k < N5 + 9 => n + k < NuaStep
      BY <1>1, <2>1
    <3>3. x.get \subseteq SvdParts => x.get \subseteq Parts /\ x.get \intersect IfParts = {}
      BY <1>2, Disjoint
    <3>4. QED
      BY <1>1, <2>1, <3>1, <3>2, <3>3 DEF StepIs, A
  <2>3. \/ i <= 7 /\ x = SvdBase[i]
        \/ i - 7 \in 1 .. N5 /\ x = svd_chans_init[i - 7]
        \/ i = N5 + 8 /\ x = Must({One("dev_wait")})
        \/ i = N5 + 9 /\ x = Must({One("nua")})
        \/ i - (N5 + 9) \in 1 .. NumAccounts /\ x = svd_refresh_registration[i - (N5 + 9)]
    BY <2>1, SvdSteps DEF S, N5
  <2>4. CASE i <= 7 /\ x = SvdBase[i]
    <3>1. i \in 1 .. Len(SvdBase)
      BY <2>1, <2>4, BaseSteps
    <3>2. x \in Musts({One("svd"), One("root")} \union Vectors)
      BY <2>4, <3>1, BaseSteps, ElementOfSeq
    <3>3. x.get \subseteq {One("svd"), One("root")} \union Vectors /\ ~x.may
      BY <3>2, InMusts
    <3>4. x.get \subseteq SvdParts /\ x.get \intersect Timers = {}
      BY <3>3, Disjoint DEF SvdParts
    <3>5. i # N5 + 9
      BY <1>1, <2>4
    <3>6. QED
      BY <3>3, <3>4, <3>5
  <2>5. CASE i - 7 \in 1 .. N5 /\ x = svd_chans_init[i - 7]
    <3>1. /\ x.get \subseteq ChanParts
          /\ x.may => x.skip \in Nat /\ (i - 7) + x.skip <= N5
      BY <2>5, ChanSteps DEF N5
    <3>2. x.get \subseteq SvdParts /\ x.get \intersect Timers = {}
      BY <3>1, Disjoint DEF SvdParts
    <3>3. /\ i # N5 + 9
          /\ \A k \in Nat : (i - 7) + k <= N5 => i + k < S + 4 /\ i + k < N5 + 9
      BY <1>1, <2>1, <2>5
    <3>4. QED
      BY <3>1, <3>2, <3>3
  <2>6. CASE i = N5 + 8 /\ x = Must({One("dev_wait")})
    <3>1. x.get = {One("dev_wait")} /\ ~x.may
      BY <2>6, Records
    <3>2. x.get \subseteq SvdParts /\ x.get \intersect Timers = {}
      BY <3>1, Disjoint DEF SvdParts
    <3>3. i # N5 + 9
      BY <1>1, <2>6
    <3>4. QED
      BY <3>1, <3>2, <3>3
  <2>7. CASE i = N5 + 9 /\ x = Must({One("nua")})
    <3>1. x.get = {One("nua")} /\ ~x.may
      BY <2>7, Records
    <3>2. x.get \subseteq SvdParts /\ x.get \intersect Timers = {}
      BY <3>1, Disjoint DEF SvdParts
    <3>3. QED
      BY <3>1, <3>2
  <2>8. CASE i - (N5 + 9) \in 1 .. NumAccounts /\ x = svd_refresh_registration[i - (N5 + 9)]
    <3>1. x.get \subseteq Timers /\ x.may /\ x.skip = 0
      BY <2>8, TimerSteps
    <3>2. x.get \subseteq SvdParts
      BY <3>1 DEF SvdParts
    <3>3. ~ (i < N5 + 9) /\ i # N5 + 9 /\ i + 0 < S + 4
      BY <1>1, <2>1, <2>8
    <3>4. QED
      BY <3>1, <3>2, <3>3
  <2>9. QED
    BY <2>3, <2>4, <2>5, <2>6, <2>7, <2>8
<1>7. CASE n - (A + S) \in 1 .. 4 /\ x = svd_create_interface[n - (A + S)]
  <2>1. x \in Musts(IfParts)
    BY <1>7, InterfaceSteps, ElementOfSeq
  <2>2. x.get \subseteq IfParts /\ ~x.may
    BY <2>1, InMusts
  <2>3. ~ (n < NuaStep) /\ n # NuaStep /\ ~ (n <= A) /\ ~ (n <= A + S)
    BY <1>1, <1>7
  <2>4. QED
    BY <1>2, <2>2, <2>3 DEF StepIs, A, S
<1>8. QED
  BY <1>3, <1>5, <1>6, <1>7 DEF x

-----------------------------------------------------------------------------
(* The start keeps the invariant                                           *)

LEMMA StartIs ==
  ASSUME LifeInv, phase = "start"
  PROVE  /\ Starting /\ passed + 1 \in 1 .. Len(Plan) /\ passed \in Nat
         /\ StepIs(passed + 1, Plan[passed + 1])
         /\ Len(ab_create) \in Nat /\ Len(svd_create) \in Nat /\ Len(Plan) \in Nat
         /\ NuaStep \in Nat \ {0} /\ NuaStep > Len(ab_create)
         /\ Len(Plan) = Len(ab_create) + Len(svd_create) + 4
<1>1. /\ Len(ab_create) \in Nat /\ Len(svd_create) \in Nat
      /\ Len(Plan) = Len(ab_create) + Len(svd_create) + 4
      /\ NuaStep \in Nat \ {0} /\ NuaStep > Len(ab_create)
  BY PlanSteps, InterfaceAssumption DEF NuaStep
<1>2. Starting
  BY DEF LifeInv
<1>3. passed \in Nat /\ passed + 1 \in 1 .. Len(Plan)
  BY <1>1, <1>2 DEF Starting
<1>4. QED
  BY <1>1, <1>2, <1>3, StepsAre

LEMMA SuccessStep == LifeInv /\ StepSucceeds => LifeInv'
<1> SUFFICES ASSUME LifeInv, StepSucceeds PROVE LifeInv'
  OBVIOUS
<1> USE Numbers
<1> DEFINE n == passed + 1
<1> DEFINE get == Plan[n].get
<1>1. /\ phase = "start" /\ passed' = n
      /\ held' = held \union get /\ ptr' = ptr \union get
      /\ phase' = IF passed' = Len(Plan) THEN "loop" ELSE phase
      /\ UNCHANGED <<skipped, todo, requests, wrong, orphans, ifVars>>
  BY DEF StepSucceeds
<1>2. /\ Starting /\ n \in 1 .. Len(Plan) /\ passed \in Nat /\ n = passed + 1
      /\ StepIs(n, Plan[n])
      /\ Len(ab_create) \in Nat /\ Len(svd_create) \in Nat /\ Len(Plan) \in Nat
      /\ NuaStep \in Nat \ {0}
  BY <1>1, StartIs
<1>3. /\ get \subseteq Parts
      /\ n <= Len(ab_create) => get \subseteq AbParts
      /\ n <= Len(ab_create) + Len(svd_create) => get \intersect IfParts = {}
      /\ n < NuaStep => get \intersect Timers = {}
      /\ n = NuaStep => One("nua") \in get
  BY <1>2 DEF StepIs
<1>4. One("stdin") \notin Parts
  BY DEF Ordinary
<1> HIDE DEF n, get
<1>5. One("stdin") \in held' /\ ptr' = held' \ {One("stdin")}
  BY <1>1, <1>2, <1>3, <1>4 DEF Starting
<1>6. LifeTypeOK' /\ Pointers' /\ StdinHeld' /\ ReleasedOnce' /\ DependantsGoFirst'
  <2>1. LifeTypeOK'
    BY <1>1, <1>3 DEF LifeInv, LifeTypeOK
  <2>2. Pointers'
    BY <1>5 DEF Pointers, Kept
  <2>3. StdinHeld' /\ ReleasedOnce' /\ DependantsGoFirst'
    BY <1>1, <1>5 DEF LifeInv, StdinHeld, ReleasedOnce, DependantsGoFirst
  <2>4. QED
    BY <2>1, <2>2, <2>3
<1>7. CASE n = Len(Plan)
  <2>1. phase' = "loop" /\ todo' = << >> /\ requests' = 0
    BY <1>1, <1>2, <1>7 DEF Starting
  <2>2. Listed(todo', 0, End)
    BY <2>1, NoOps
  <2>3. Ordered(End)' /\ TimersGo(0, End)' /\ OneShutdown(0)'
    BY <2>1 DEF Ordered, TimersGo, OneShutdown
  <2>4. InLoop(0, End)' /\ AfterLoop(0, End)'
    BY <1>5, <2>1 DEF InLoop, AfterLoop
  <2>5. Running(0, End)'
    BY <2>2, <2>3, <2>4 DEF Running
  <2>6. QED
    BY <1>6, <2>1, <2>5 DEF LifeInv
<1>8. CASE n # Len(Plan)
  <2>1. phase' = "start"
    BY <1>1, <1>8
  <2>2. passed' \in 0 .. Len(Plan) - 1
    BY <1>1, <1>2, <1>8
  <2>3. passed' <= Len(ab_create) => held' \subseteq AbParts \union {One("stdin")}
    BY <1>1, <1>2, <1>3 DEF Starting
  <2>4. passed' <= Len(ab_create) + Len(svd_create) => held' \intersect IfParts = {}
    BY <1>1, <1>2, <1>3 DEF Starting
  <2>5. passed' < NuaStep => held' \intersect Timers = {}
    BY <1>1, <1>2, <1>3 DEF Starting
  <2>6. passed' >= NuaStep => One("nua") \in held'
    BY <1>1, <1>2, <1>3 DEF Starting
  <2>7. Starting'
    BY <1>1, <1>2, <1>5, <2>2, <2>3, <2>4, <2>5, <2>6 DEF Starting, NuaStep
  <2>8. QED
    BY <1>6, <2>1, <2>7 DEF LifeInv
<1>9. QED
  BY <1>7, <1>8

LEMMA SkipStep == LifeInv /\ StepIsSkipped => LifeInv'
<1> SUFFICES ASSUME LifeInv, StepIsSkipped PROVE LifeInv'
  OBVIOUS
<1> DEFINE n == passed + 1
<1> DEFINE k == Plan[n].skip
<1>1. /\ phase = "start" /\ Plan[n].may /\ passed' = n + k
      /\ UNCHANGED <<phase, held, ptr, todo, requests, wrong, orphans, ifVars>>
  BY DEF StepIsSkipped
<1>2. /\ Starting /\ n \in 1 .. Len(Plan) /\ passed \in Nat /\ n = passed + 1
      /\ StepIs(n, Plan[n])
      /\ Len(ab_create) \in Nat /\ Len(svd_create) \in Nat /\ Len(Plan) \in Nat
      /\ NuaStep \in Nat \ {0}
  BY <1>1, StartIs
<1>3. /\ k \in Nat /\ n + k < Len(Plan) /\ n # NuaStep
      /\ n < NuaStep => n + k < NuaStep
  BY <1>1, <1>2 DEF StepIs
<1> HIDE DEF n, k
<1>4. LifeTypeOK' /\ Pointers' /\ StdinHeld' /\ ReleasedOnce' /\ DependantsGoFirst'
  BY <1>1, <1>2 DEF LifeInv, LifeTypeOK, Pointers, StdinHeld, ReleasedOnce,
                    DependantsGoFirst, Starting
<1>5. /\ passed' \in 0 .. Len(Plan) - 1 /\ passed' > passed
      /\ passed' >= NuaStep => passed >= NuaStep
  BY <1>1, <1>2, <1>3
<1>6. Starting'
  <2>1. /\ passed' <= Len(ab_create) => passed <= Len(ab_create)
        /\ passed' <= Len(ab_create) + Len(svd_create) =>
             passed <= Len(ab_create) + Len(svd_create)
        /\ passed' < NuaStep => passed < NuaStep
    BY <1>2, <1>5
  <2>2. QED
    BY <1>1, <1>2, <1>5, <2>1 DEF Starting, NuaStep
<1>7. QED
  BY <1>1, <1>4, <1>6 DEF LifeInv

LEMMA FailureStep == LifeInv /\ StepFails => LifeInv'
<1> SUFFICES ASSUME LifeInv, StepFails PROVE LifeInv'
  OBVIOUS
<1> USE Numbers
<1> DEFINE n == passed + 1
<1>1. /\ phase = "start" /\ phase' \in {"undefined", "unwind"} /\ todo' = Unwind(n)
      /\ held' = held \/ held' = held \union {One("fw_file")}
      /\ UNCHANGED <<passed, skipped, ptr, requests, wrong, orphans, ifVars>>
  BY DEF StepFails
<1>2. /\ Starting /\ n \in 1 .. Len(Plan) /\ passed \in Nat /\ n = passed + 1
      /\ Len(ab_create) \in Nat /\ Len(svd_create) \in Nat /\ NuaStep > Len(ab_create)
      /\ NuaStep \in Nat
  BY <1>1, StartIs
<1> HIDE DEF n
<1>3. One("fw_file") \in Kept /\ One("fw_file") \notin Timers
  BY DEF Kept, Timers, Each, One
<1>4. One("stdin") \in held' /\ requests' = 0
      /\ held' \ Kept = held \ Kept /\ held' \intersect Timers = held \intersect Timers
  BY <1>1, <1>2, <1>3 DEF Starting
<1>5. LifeTypeOK' /\ Pointers' /\ StdinHeld' /\ ReleasedOnce' /\ DependantsGoFirst'
  <2>1. held' \subseteq Parts \union Kept
    BY <1>1, <1>3 DEF LifeInv, LifeTypeOK
  <2>2. QED
    BY <1>1, <1>4, <2>1
       DEF LifeInv, LifeTypeOK, Pointers, StdinHeld, ReleasedOnce, DependantsGoFirst
<1>6. ASSUME NEW t \in held' \intersect Timers
      PROVE  passed >= NuaStep /\ One("nua") \in ptr' /\ passed > Len(ab_create)
  <2>1. passed >= NuaStep
    BY <1>2, <1>4, <1>6 DEF Starting
  <2>2. QED
    BY <1>1, <1>2, <2>1 DEF Starting
<1>7. Timers \intersect ptr' \subseteq held'
  BY <1>1, <1>2 DEF Starting
<1>8. \A d \in held' \ (Kept \union Timers) :
        d \in Ordinary /\ d \in held /\ d # One("stdin")
  <2>1. held' \ (Kept \union Timers) \subseteq Ordinary
    BY <1>5, NotKept DEF LifeTypeOK
  <2>2. QED
    BY <1>4, <2>1
<1>9. ASSUME NEW f \in 0 .. End, Listed(todo', 0, f), phase' = "unwind",
             \A d \in held' \ (Kept \union Timers) : Place(d) > f,
             f < Mid \/ held' \intersect Timers = {}
      PROVE  Running(0, f)'
  <2>1. Ordered(f)'
    BY <1>9 DEF Ordered
  <2>2. TimersGo(0, f)'
    BY <1>6, <1>9 DEF TimersGo
  <2>3. OneShutdown(0)' /\ InLoop(0, f)' /\ AfterLoop(0, f)'
    BY <1>4, <1>7, <1>9 DEF OneShutdown, InLoop, AfterLoop
  <2>4. QED
    BY <1>9, <2>1, <2>2, <2>3 DEF Running
<1>10. ASSUME phase' = "unwind"
       PROVE  \E f \in 0 .. End : Running(0, f)'
  <2>1. CASE InAb(n)
    <3> DEFINE f == 5 * NumChans + 8
    <3>1. f \in 0 .. End
      BY InterfaceAssumption DEF End
    <3>2. Listed(todo', 0, f)
      <4>1. todo' = ab_destroy
        BY <1>1, <2>1 DEF Unwind, InSvd
      <4>2. QED
        BY <3>1, <4>1, Unwindings, TailsAreListed
    <3>3. passed <= Len(ab_create)
      BY <1>2, <2>1 DEF InAb
    <3>4. held \subseteq AbParts \union {One("stdin")}
      BY <1>2, <3>3 DEF Starting
    <3>5. \A d \in held' \ (Kept \union Timers) : Place(d) > f
      BY <1>8, <3>4, Places
    <3>6. held' \intersect Timers = {}
      BY <1>2, <1>6, <3>3
    <3> HIDE DEF f
    <3>7. QED
      BY <1>9, <1>10, <3>1, <3>2, <3>5, <3>6
  <2>2. CASE InSvd(n)
    <3>1. 2 \in 0 .. End /\ 2 < Mid
      BY InterfaceAssumption DEF End, Mid
    <3>2. Listed(todo', 0, 2)
      <4>1. todo' = svd_destroy \o UnwindFromConf
        BY <1>1, <2>2 DEF Unwind, InSvd
      <4>2. QED
        BY <3>1, <4>1, Unwindings, TailsAreListed
    <3>3. held \intersect IfParts = {}
      BY <1>2, <2>2 DEF Starting, InSvd
    <3>4. \A d \in held' \ (Kept \union Timers) : Place(d) > 2
      BY <1>8, <3>3, Places
    <3>5. QED
      BY <1>9, <1>10, <3>1, <3>2, <3>4
  <2>3. CASE ~InAb(n) /\ ~InSvd(n)
    <3>1. 0 \in 0 .. End /\ 0 < Mid
      BY InterfaceAssumption DEF End, Mid
    <3>2. Listed(todo', 0, 0)
      <4>1. todo' = UnwindFromIf
        BY <1>1, <2>3 DEF Unwind
      <4>2. QED
        BY <3>1, <4>1, Unwindings, TailsAreListed
    <3>3. \A d \in held' \ (Kept \union Timers) : Place(d) > 0
      BY <1>8, Places
    <3>4. QED
      BY <1>9, <1>10, <3>1, <3>2, <3>3
  <2>4. QED
    BY <2>1, <2>2, <2>3
<1>11. QED
  BY <1>1, <1>5, <1>10 DEF LifeInv

-----------------------------------------------------------------------------
(* The theorems                                                            *)

LEMMA LifeInvInit == LifecycleInit => LifeInv
<1> SUFFICES ASSUME LifecycleInit PROVE LifeInv
  OBVIOUS
<1> USE Numbers DEF LifecycleInit
<1>1. One("stdin") \in Kept /\ One("stdin") # One("nua")
      /\ One("stdin") \notin Timers /\ One("stdin") \notin IfParts
  BY DEF Kept, IfParts, One
<1>2. LifeTypeOK /\ Pointers /\ StdinHeld /\ ReleasedOnce /\ DependantsGoFirst
  BY <1>1 DEF LifeTypeOK, Pointers, StdinHeld, ReleasedOnce, DependantsGoFirst
<1>3. Len(Plan) \in Nat \ {0} /\ NuaStep \in Nat \ {0}
  BY PlanSteps, InterfaceAssumption DEF NuaStep
<1>4. Starting
  BY <1>1, <1>3 DEF Starting
<1>5. QED
  BY <1>2, <1>4 DEF LifeInv

LEMMA LifeInvNext == LifeInv /\ [LifecycleNext]_<<lifeVars, ifVars>> => LifeInv'
<1> SUFFICES ASSUME LifeInv, [LifecycleNext]_<<lifeVars, ifVars>>
             PROVE  LifeInv'
  OBVIOUS
<1>1. CASE StepSucceeds
  BY <1>1, SuccessStep
<1>2. CASE StepIsSkipped
  BY <1>2, SkipStep
<1>3. CASE StepFails
  BY <1>3, FailureStep
<1>4. CASE free
  BY <1>4, FreeStep
<1>5. CASE destroy
  BY <1>5, DestroyStep
<1>6. CASE nua_shutdown
  BY <1>6, StackStep
<1>7. CASE svd_shutdown
  BY <1>7, DestroyShutsDown
<1>8. CASE su_home_deinit
  BY <1>8, HomeStep
<1>9. CASE close_ifd
  BY <1>9, CloseStep
<1>10. CASE Exits
  BY <1>10, ExitStep
<1>11. ASSUME NEW m \in Message, NEW bad \in SUBSET {c \in Chan : is_up[c]},
              NEW memory \in BOOLEAN, Command(m, bad, memory)
       PROVE  LifeInv'
  BY <1>11, CommandStep
<1>12. CASE CallsChange
  BY <1>12, SameLife DEF CallsChange
<1>13. CASE svd_r_shutdown
  BY <1>13, EndStep
<1>14. CASE term_handler
  BY <1>14, SignalStep
<1>15. CASE UNCHANGED <<lifeVars, ifVars>>
  BY <1>15, SameLife
<1>16. QED
  BY <1>1, <1>2, <1>3, <1>4, <1>5, <1>6, <1>7, <1>8, <1>9, <1>10, <1>11, <1>12,
     <1>13, <1>14, <1>15 DEF LifecycleNext

\* What is held and the releases that are left agree, through every start that
\* fails, every command and every signal.
THEOREM LifeInvHolds == LifecycleSpec => []LifeInv
<1>1. LifecycleInit => LifeInv
  BY LifeInvInit
<1>2. LifeInv /\ [LifecycleNext]_<<lifeVars, ifVars>> => LifeInv'
  BY LifeInvNext
<1>3. QED
  BY <1>1, <1>2, PTL DEF LifecycleSpec

\* Wherever the start fails, and whatever a signal interrupts, nothing is
\* released twice or before it was acquired, but for the vectors of g_conf,
\* which go twice at every end, and, after two requests to end, the timers: for every board and every number of
\* accounts, requests and skipped steps.
THEOREM EverReleasedOnce == LifecycleSpec => []ReleasedOnce
<1>1. LifeInv => ReleasedOnce
  BY DEF LifeInv
<1>2. QED
  BY <1>1, LifeInvHolds, PTL

\* Nothing is released while something that is held needs it, but the root,
\* which the stack needs, and the socket of the interface, which its wait needs:
\* the code does release these two too early.
THEOREM DependantsEverFirst == LifecycleSpec => []DependantsGoFirst
<1>1. LifeInv => DependantsGoFirst
  BY DEF LifeInv
<1>2. QED
  BY <1>1, LifeInvHolds, PTL

\* Every path to the end of main has released all but the stack and the
\* firmware file, and kept the standard input, but for the path on which the
\* interface fails before it has a socket.
THEOREM NothingEverLeft == LifecycleSpec => []NothingLeft
<1>1. LifeInv => NothingLeft
  <2>1. SUFFICES ASSUME LifeInv, phase = "exit"
                 PROVE  /\ held \subseteq {One("nua"), One("stdin"), One("fw_file")}
                        /\ One("stdin") \in held
                             \/ passed = Len(ab_create) + Len(svd_create)
    BY DEF NothingLeft
  <2>2. todo = << >>
    BY <2>1 DEF LifeInv, Running, AfterLoop
  <2>3. held \subseteq Kept
    BY <2>1, <2>2, AllDone
  <2>4. QED
    BY <2>1, <2>3 DEF LifeInv, StdinHeld, Kept
<1>2. QED
  BY <1>1, LifeInvHolds, PTL

-----------------------------------------------------------------------------
(* The answers of the interface.  Active and the list of the active        *)
(* channels are recursive functions of the channel: that there are such    *)
(* functions, and what they write, is shown from the last channel down.    *)

\* Induction from N down to 0
LEMMA DownTo ==
  ASSUME NEW N \in Nat, NEW S, N \in S, \A c \in 0 .. N - 1 : c + 1 \in S => c \in S
  PROVE  0 .. N \subseteq S
<1> DEFINE Bad == {k \in 0 .. N : N - k \notin S}
<1> DEFINE R == OpToRel(<, Nat)
<1>1. IsWellFoundedOn(R, Nat) /\ \A x, y \in Nat : <<y, x>> \in R <=> y < x
  BY NatLessThanWellFounded DEF OpToRel
<1> HIDE DEF R
<1>2. ASSUME Bad # {}
      PROVE  FALSE
  <2>1. Bad \subseteq Nat
    OBVIOUS
  <2>2. PICK k \in Bad : \A j \in Bad : <<j, k>> \notin R
    BY <1>1, <1>2, <2>1, WFMin, Zenon
  <2>3. k \in 1 .. N /\ N - k \in 0 .. N - 1 /\ (N - k) + 1 \notin S
    OBVIOUS
  <2>4. k - 1 \in Bad /\ k - 1 \in Nat /\ k \in Nat /\ k - 1 < k
    BY <2>3
  <2>5. QED
    BY <1>1, <2>2, <2>4
<1>3. ASSUME NEW c \in 0 .. N
      PROVE  c \in S
  <2>1. N - c \in 0 .. N /\ N - (N - c) = c
    OBVIOUS
  <2>2. N - c \notin Bad
    BY <1>2
  <2>3. QED
    BY <2>1, <2>2
<1>4. QED
  BY <1>3

\* A function can be computed from N down, from last with the steps H.
StepsOf(N, V, last, H) ==
  N \in Nat /\ last \in V /\ \A c \in 0 .. N - 1, v \in V : H[c][v] \in V

ComputedDown(f, N, V, last, H) ==
  f \in [0 .. N -> V] /\ f[N] = last /\ \A c \in 0 .. N - 1 : f[c] = H[c][f[c + 1]]

LEMMA Downwards ==
  ASSUME NEW N, NEW V, NEW last, NEW H, StepsOf(N, V, last, H)
  PROVE  \E f : ComputedDown(f, N, V, last, H)
<1>s. N \in Nat /\ last \in V /\ \A c \in 0 .. N - 1, v \in V : H[c][v] \in V
  BY DEF StepsOf
<1> USE <1>s
<1> DEFINE Ok(b, f) == f[N] = last /\ \A c \in b .. N - 1 : f[c] = H[c][f[c + 1]]
<1> DEFINE Has(b) == \E f \in [b .. N -> V] : Ok(b, f)
<1>1. Has(N)
  <2>1. [c \in N .. N |-> last] \in [N .. N -> V] /\ Ok(N, [c \in N .. N |-> last])
    OBVIOUS
  <2>2. QED
    BY <2>1
<1>2. ASSUME NEW b \in 0 .. N - 1, Has(b + 1)
      PROVE  Has(b)
  <2>1. PICK f \in [b + 1 .. N -> V] : Ok(b + 1, f)
    BY <1>2
  <2> DEFINE first == H[b][f[b + 1]]
  <2>2. first \in V
    OBVIOUS
  <2> DEFINE g == [c \in b .. N |-> IF c = b THEN first ELSE f[c]]
  <2>3. g \in [b .. N -> V]
    BY <2>2
  <2>4. g[N] = last
    BY <2>1
  <2>5. ASSUME NEW c \in b .. N - 1
        PROVE  g[c] = H[c][g[c + 1]]
    <3>1. g[c + 1] = f[c + 1]
      BY <2>5
    <3>2. CASE c = b
      BY <3>1, <3>2
    <3>3. CASE c \in b + 1 .. N - 1
      BY <2>1, <3>1, <3>3
    <3>4. QED
      BY <2>5, <3>2, <3>3
  <2>6. QED
    BY <2>3, <2>4, <2>5
<1> DEFINE S == {b \in 0 .. N : Has(b)}
<1> HIDE DEF Has
<1>3. N \in S /\ \A c \in 0 .. N - 1 : c + 1 \in S => c \in S
  BY <1>1, <1>2
<1> HIDE DEF S
<1>4. 0 .. N \subseteq S
  BY <1>3, DownTo
<1>5. 0 \in S
  BY <1>4
<1>6. QED
  BY <1>5 DEF S, Has, ComputedDown

\* UpFrom is what its definition says: there is such a function.
LEMMA UpFromIs ==
  ASSUME NumChans \in Nat
  PROVE  /\ UpFrom[NumChans] = << >>
         /\ \A c \in 0 .. NumChans : UpFrom[c] \in Seq(Chan)
         /\ \A c \in Chan : UpFrom[c] = IF ~is_up[c] THEN UpFrom[c + 1]
                                        ELSE <<c>> \o UpFrom[c + 1]
<1> DEFINE V == Seq(Chan)
<1> DEFINE More(c, v) == IF ~is_up[c] THEN v ELSE <<c>> \o v
<1> DEFINE H == [c \in 0 .. NumChans - 1 |-> [v \in V |-> More(c, v)]]
<1>1. << >> \in V /\ \A c \in Chan, v \in V : More(c, v) \in V
  OBVIOUS
<1> HIDE DEF V, More
<1>2. \A c \in 0 .. NumChans - 1, v \in V : H[c][v] \in V
  BY <1>1 DEF Chan
<1>3. \A c \in 0 .. NumChans - 1, v \in V : H[c][v] = More(c, v)
  OBVIOUS
<1> DEFINE none == << >>
<1> HIDE DEF H, none
<1>e. none \in V
  BY <1>1 DEF none
<1>s. StepsOf(NumChans, V, none, H)
  BY <1>e, <1>2 DEF StepsOf
<1>p. PICK f : ComputedDown(f, NumChans, V, none, H)
  BY <1>s, Downwards
<1>4. /\ f \in [0 .. NumChans -> V] /\ f[NumChans] = none
      /\ \A c \in 0 .. NumChans - 1 : f[c] = H[c][f[c + 1]]
  BY <1>p DEF ComputedDown
<1>5. \A c \in 0 .. NumChans - 1 : f[c] = More(c, f[c + 1])
  BY <1>3, <1>4
<1> DEFINE Body(g) == [c \in 0 .. NumChans |->
                         IF c = NumChans THEN none ELSE More(c, g[c + 1])]
<1>6. f = Body(f)
  <2>1. \A c \in 0 .. NumChans : f[c] = IF c = NumChans THEN none ELSE More(c, f[c + 1])
    BY <1>4, <1>5
  <2> DEFINE It(c) == IF c = NumChans THEN none ELSE More(c, f[c + 1])
  <2>2. \A c \in 0 .. NumChans : f[c] = It(c)
    BY <2>1
  <2> HIDE DEF It
  <2>3. f = [c \in 0 .. NumChans |-> It(c)]
    BY <1>4, <2>2
  <2>4. QED
    BY <2>3 DEF It
<1>7. UpFrom = CHOOSE g : g = Body(g)
  BY DEF UpFrom, More, none
<1>8. UpFrom = Body(UpFrom)
  <2> HIDE DEF Body
  <2>1. QED
    BY <1>6, <1>7, Zenon
<1> DEFINE W == UpFrom
<1>9. W = Body(W)
  BY <1>8
<1> HIDE DEF W
<1>10. W[NumChans] = none /\ \A c \in 0 .. NumChans - 1 : W[c] = More(c, W[c + 1])
  <2> HIDE DEF More
  <2>1. \A c \in 0 .. NumChans : W[c] = IF c = NumChans THEN none ELSE More(c, W[c + 1])
    BY <1>9, Zenon
  <2>2. QED
    BY <2>1
<1>11. \A c \in 0 .. NumChans : W[c] \in V
  <2> DEFINE S == {c \in 0 .. NumChans : W[c] \in V}
  <2>1. NumChans \in S /\ \A c \in 0 .. NumChans - 1 : c + 1 \in S => c \in S
    BY <1>1, <1>e, <1>10 DEF Chan
  <2> HIDE DEF S
  <2>2. 0 .. NumChans \subseteq S
    BY <2>1, DownTo
  <2>3. QED
    BY <2>2 DEF S
<1>12. QED
  BY <1>10, <1>11 DEF W, V, More, Chan, none

States == {"FIRST", "SECOND", "OTHER"}
Tokens(bad) == {Comma} \union {ChanItem(c, bad) : c \in Chan}

\* f[c][st] is what Active writes from channel c on, when st of the active
\* channels were written before.
Writes(f, bad) ==
  /\ \A c \in 0 .. NumChans, st \in States : f[c][st] \in Seq(Tokens(bad))
  /\ \A st \in States : f[NumChans][st] = << >>
  /\ \A c \in Chan, st \in States :
       f[c][st] = IF ~is_up[c] THEN f[c + 1][st]
                  ELSE BeforeItem(st) \o <<ChanItem(c, bad)>> \o AfterItem(st, c)
                         \o f[c + 1][NextState(st)]

LEMMA ActiveIs ==
  ASSUME NumChans \in Nat, NEW bad
  PROVE  \E f : Active(bad) = f[0]["FIRST"] /\ Writes(f, bad)
<1> DEFINE T == Tokens(bad)
<1> DEFINE V == [States -> Seq(T)]
<1> DEFINE At(c, v, st) ==
      IF ~is_up[c] THEN v[st]
      ELSE BeforeItem(st) \o <<ChanItem(c, bad)>> \o AfterItem(st, c) \o v[NextState(st)]
<1> DEFINE More(c, v) == [st \in States |-> At(c, v, st)]
<1> DEFINE H == [c \in 0 .. NumChans - 1 |-> [v \in V |-> More(c, v)]]
<1> DEFINE none == [st \in States |-> << >>]
<1>1. none \in V
  OBVIOUS
<1>2. ASSUME NEW c \in Chan, NEW v \in V, NEW st \in States
      PROVE  At(c, v, st) \in Seq(T)
  <2>2. Comma \in T /\ ChanItem(c, bad) \in T
    BY DEF Tokens
  <2>3. v[st] \in Seq(T) /\ v[NextState(st)] \in Seq(T)
    BY DEF NextState, States
  <2> HIDE DEF T
  <2>1. BeforeItem(st) \in Seq(T) /\ AfterItem(st, c) \in Seq(T)
    BY <2>2 DEF BeforeItem, AfterItem
  <2>4. <<ChanItem(c, bad)>> \in Seq(T)
    BY <2>2
  <2>5. QED
    BY <2>1, <2>3, <2>4
<1> HIDE DEF At
<1>3. \A c \in Chan, v \in V : More(c, v) \in V
  BY <1>2
<1> HIDE DEF V, More, none
<1>4. StepsOf(NumChans, V, none, H)
  BY <1>1, <1>3 DEF StepsOf, Chan
<1>5. \A c \in 0 .. NumChans - 1, v \in V : H[c][v] = More(c, v)
  OBVIOUS
<1> HIDE DEF H
<1>6. PICK f : ComputedDown(f, NumChans, V, none, H)
  BY <1>4, Downwards
<1>7. /\ f \in [0 .. NumChans -> V] /\ f[NumChans] = none
      /\ \A c \in 0 .. NumChans - 1 : f[c] = More(c, f[c + 1])
  BY <1>5, <1>6 DEF ComputedDown
<1> DEFINE It(g, c) == IF c = NumChans THEN none ELSE More(c, g[c + 1])
<1> DEFINE Body(g) == [c \in 0 .. NumChans |-> It(g, c)]
<1>8. f = Body(f)
  <2>1. \A c \in 0 .. NumChans : f[c] = It(f, c)
    BY <1>7
  <2> HIDE DEF It
  <2>2. QED
    BY <1>7, <2>1
<1> DEFINE W == CHOOSE g : g = Body(g)
<1>9. W = Body(W)
  <2> HIDE DEF Body
  <2>1. QED
    BY <1>8, Zenon
<1>10. \A g : \A c \in 0 .. NumChans, st \in States :
         It(g, c)[st] = IF c = NumChans THEN << >> ELSE At(c, g[c + 1], st)
  BY DEF More, none
<1>11. Active(bad) = W[0]["FIRST"]
  <2> DEFINE Body2(g) ==
        [c \in 0 .. NumChans |->
           [st \in {"FIRST", "SECOND", "OTHER"} |->
              IF c = NumChans THEN << >> ELSE At(c, g[c + 1], st)]]
  <2>1. Active(bad) = (CHOOSE g : g = Body2(g))[0]["FIRST"]
    BY Zenon DEF Active, At
  <2>2. ASSUME NEW g
        PROVE  Body(g) = Body2(g)
    <3>1. \A c \in 0 .. NumChans : Body(g)[c] = Body2(g)[c]
      BY DEF More, none, States
    <3>2. QED
      BY <3>1
  <2> HIDE DEF Body, Body2
  <2>3. (CHOOSE g : g = Body(g)) = (CHOOSE g : g = Body2(g))
    BY <2>2, Zenon
  <2>4. QED
    BY <2>1, <2>3
<1> HIDE DEF W
<1>12. \A c \in 0 .. NumChans : W[c] = It(W, c)
  BY <1>9
<1>13. \A c \in 0 .. NumChans : W[c] \in V
  <2> DEFINE S == {c \in 0 .. NumChans : W[c] \in V}
  <2>1. NumChans \in S /\ \A c \in 0 .. NumChans - 1 : c + 1 \in S => c \in S
    BY <1>1, <1>3, <1>12 DEF Chan
  <2> HIDE DEF S
  <2>2. 0 .. NumChans \subseteq S
    BY <2>1, DownTo
  <2>3. QED
    BY <2>2 DEF S
<1>14. \A c \in 0 .. NumChans, st \in States : W[c][st] \in Seq(T)
  <2> HIDE DEF T
  <2>1. QED
    BY <1>13 DEF V
<1>15. \A st \in States : W[NumChans][st] = << >>
  BY <1>10, <1>12
<1>16. \A c \in Chan, st \in States : W[c][st] = At(c, W[c + 1], st)
  BY <1>10, <1>12 DEF Chan
<1> HIDE DEF It
<1>17. Writes(W, bad)
  BY <1>14, <1>15, <1>16 DEF At, Writes
<1>18. QED
  BY <1>11, <1>17

-----------------------------------------------------------------------------
(* Lists                                                                   *)

\* i is what an answer says of the channel or account n.
IsItem(i, n) == i \notin {Comma, Open, Close} /\ i[2] = n

\* x is what is between the brackets, and what follows the first item.
Lists(x, asked) ==
  /\ IsSeq(x) /\ Len(x) = (IF Len(asked) = 0 THEN 0 ELSE 2 * Len(asked) - 1)
  /\ \A k \in 1 .. Len(x) : IF k % 2 = 1 THEN IsItem(x[k], asked[(k + 1) \div 2])
                            ELSE x[k] = Comma
Continues(x, asked) ==
  /\ IsSeq(x) /\ Len(x) = 2 * Len(asked)
  /\ \A k \in 1 .. Len(x) : IF k % 2 = 1 THEN x[k] = Comma
                            ELSE IsItem(x[k], asked[k \div 2])

\* One more in front
LEMMA Cons ==
  ASSUME NEW e, NEW s, IsSeq(s)
  PROVE  /\ IsSeq(<<e>> \o s) /\ Len(s) \in Nat /\ Len(<<e>> \o s) = Len(s) + 1
         /\ (<<e>> \o s)[1] = e
         /\ \A k \in 1 .. Len(s) : (<<e>> \o s)[k + 1] = s[k]
         /\ \A k \in 2 .. Len(s) + 1 : (<<e>> \o s)[k] = s[k - 1]
<1>1. <<e>> \in Seq({e}) /\ Len(<<e>>) = 1 /\ <<e>>[1] = e
  OBVIOUS
<1>2. IsSeq(<<e>>)
  BY <1>1 DEF IsSeq
<1> DEFINE h == <<e>>
<1> HIDE DEF h
<1>3. Len(h) = 1 /\ h[1] = e
  BY <1>1 DEF h
<1>h. IsSeq(h)
  BY <1>2 DEF h
<1> DEFINE t == h \o s
<1>4. /\ IsSeq(t) /\ Len(s) \in Nat /\ Len(t) = Len(h) + Len(s)
      /\ \A i \in 1 .. Len(h) : t[i] = h[i]
      /\ \A i \in 1 .. Len(s) : t[Len(h) + i] = s[i]
  BY <1>h, Concat
<1> HIDE DEF t
<1>5. Len(t) = Len(s) + 1 /\ t[1] = e /\ \A i \in 1 .. Len(s) : t[i + 1] = s[i]
  BY <1>3, <1>4
<1>6. ASSUME NEW k \in 2 .. Len(s) + 1
      PROVE  t[k] = s[k - 1]
  <2>1. k - 1 \in 1 .. Len(s) /\ (k - 1) + 1 = k
    BY <1>4
  <2>2. QED
    BY <1>5, <2>1
<1>7. QED
  BY <1>4, <1>5, <1>6 DEF t, h

LEMMA Parity ==
  ASSUME NEW k \in Nat, k >= 2
  PROVE  /\ (k - 1) % 2 = 1 <=> k % 2 # 1
         /\ k % 2 = 1 => (k - 1) \div 2 = ((k + 1) \div 2) - 1
OBVIOUS

LEMMA Halves ==
  ASSUME NEW n \in Nat, NEW k \in 2 .. 2 * n + 1, k % 2 = 1
  PROVE  (k + 1) \div 2 \in 2 .. n + 1
OBVIOUS

LEMMA ItemFirst ==
  ASSUME NEW i, NEW c, IsItem(i, c), NEW u, IsSeq(u), NEW x, Continues(x, u)
  PROVE  Lists(<<i>> \o x, <<c>> \o u)
<1> DEFINE y == <<i>> \o x
<1> DEFINE v == <<c>> \o u
<1>x. IsSeq(x)
  BY DEF Continues
<1>1. /\ IsSeq(y) /\ Len(x) \in Nat /\ Len(y) = Len(x) + 1 /\ y[1] = i
      /\ \A k \in 2 .. Len(x) + 1 : y[k] = x[k - 1]
  BY <1>x, Cons
<1>2. /\ Len(u) \in Nat /\ Len(v) = Len(u) + 1 /\ v[1] = c
      /\ \A k \in 2 .. Len(u) + 1 : v[k] = u[k - 1]
  BY Cons
<1> HIDE DEF y, v
<1>3. Len(x) = 2 * Len(u) /\ Len(y) = 2 * Len(v) - 1 /\ Len(v) # 0
  BY <1>1, <1>2 DEF Continues
<1>4. ASSUME NEW k \in 1 .. Len(y)
      PROVE  IF k % 2 = 1 THEN IsItem(y[k], v[(k + 1) \div 2]) ELSE y[k] = Comma
  <2>1. CASE k = 1
    <3>1. (1 + 1) \div 2 = 1 /\ 1 % 2 = 1
      OBVIOUS
    <3>2. QED
      BY <1>1, <1>2, <2>1, <3>1
  <2>2. CASE k \in 2 .. Len(x) + 1
    <3>p. k \in Nat /\ k >= 2
      BY <1>1, <2>2
    <3>1. /\ y[k] = x[k - 1] /\ k - 1 \in 1 .. Len(x)
          /\ IF (k - 1) % 2 = 1 THEN x[k - 1] = Comma
             ELSE IsItem(x[k - 1], u[(k - 1) \div 2])
      BY <1>1, <2>2 DEF Continues
    <3>2. CASE k % 2 = 1
      <4>0. (k + 1) \div 2 \in 2 .. Len(u) + 1
        <5>1. k \in 2 .. 2 * Len(u) + 1
          BY <1>2, <1>3, <2>2
        <5>2. QED
          BY <1>2, <3>2, <5>1, Halves
      <4>1. (k - 1) % 2 # 1 /\ (k - 1) \div 2 = ((k + 1) \div 2) - 1
        BY <3>p, <3>2, Parity
      <4>2. v[(k + 1) \div 2] = u[(k - 1) \div 2]
        BY <1>2, <4>0, <4>1
      <4>3. QED
        BY <3>1, <3>2, <4>1, <4>2
    <3>3. CASE k % 2 # 1
      <4>1. (k - 1) % 2 = 1
        BY <3>p, <3>3, Parity
      <4>2. QED
        BY <3>1, <3>3, <4>1
    <3>4. QED
      BY <3>2, <3>3
  <2>3. QED
    BY <1>1, <1>4, <2>1, <2>2
<1>5. Lists(y, v)
  BY <1>1, <1>3, <1>4 DEF Lists
<1>6. QED
  BY <1>5 DEF y, v

LEMMA CommaFirst ==
  ASSUME NEW u, NEW x, Lists(x, u), Len(u) \in Nat, Len(u) # 0
  PROVE  Continues(<<Comma>> \o x, u)
<1> DEFINE y == <<Comma>> \o x
<1>x. IsSeq(x)
  BY DEF Lists
<1>1. /\ IsSeq(y) /\ Len(x) \in Nat /\ Len(y) = Len(x) + 1 /\ y[1] = Comma
      /\ \A k \in 2 .. Len(x) + 1 : y[k] = x[k - 1]
  BY <1>x, Cons
<1> HIDE DEF y
<1>2. Len(x) = 2 * Len(u) - 1 /\ Len(y) = 2 * Len(u)
  BY <1>1 DEF Lists
<1>3. ASSUME NEW k \in 1 .. Len(y)
      PROVE  IF k % 2 = 1 THEN y[k] = Comma ELSE IsItem(y[k], u[k \div 2])
  <2>1. CASE k = 1
    BY <1>1, <2>1
  <2>2. CASE k \in 2 .. Len(x) + 1
    <3>p. k \in Nat /\ k >= 2
      BY <1>1, <2>2
    <3>1. /\ y[k] = x[k - 1] /\ k - 1 \in 1 .. Len(x) /\ (k - 1) + 1 = k
          /\ IF (k - 1) % 2 = 1 THEN IsItem(x[k - 1], u[((k - 1) + 1) \div 2])
             ELSE x[k - 1] = Comma
      BY <1>1, <2>2 DEF Lists
    <3>2. (k - 1) % 2 = 1 <=> k % 2 # 1
      BY <3>p, Parity
    <3>3. QED
      BY <3>1, <3>2
  <2>3. QED
    BY <1>1, <1>3, <2>1, <2>2
<1>4. Continues(y, u)
  BY <1>1, <1>2, <1>3 DEF Continues
<1>5. QED
  BY <1>4 DEF y

LEMMA EmptyConcat ==
  ASSUME NEW s, IsSeq(s)
  PROVE  << >> \o s = s /\ s \o << >> = s
BY DEF IsSeq

LEMMA Empties ==
  /\ IsSeq(<< >>) /\ Len(<< >>) = 0
  /\ \A u : Len(u) = 0 => Lists(<< >>, u) /\ Continues(<< >>, u)
<1>1. << >> \in Seq({}) /\ Len(<< >>) = 0
  OBVIOUS
<1>2. IsSeq(<< >>)
  BY <1>1 DEF IsSeq
<1>3. ASSUME NEW u, Len(u) = 0
      PROVE  Lists(<< >>, u) /\ Continues(<< >>, u)
  BY <1>1, <1>2, <1>3 DEF Lists, Continues
<1>4. QED
  BY <1>1, <1>2, <1>3

\* A comma after an item, when more come
LEMMA ItemThenList ==
  ASSUME NEW i, NEW c, IsItem(i, c), NEW u, IsSeq(u), Len(u) # 0, NEW x, Lists(x, u)
  PROVE  Lists(<<i>> \o (<<Comma>> \o x), <<c>> \o u)
<1>1. Len(u) \in Nat
  BY DEF IsSeq
<1>2. Continues(<<Comma>> \o x, u)
  BY <1>1, CommaFirst
<1>3. QED
  BY <1>2, ItemFirst

\* Brackets around what is between them
LEMMA ListShape ==
  ASSUME NEW x, NEW asked, IsSeq(asked), Lists(x, asked)
  PROVE  IsListOf(Brackets(x), asked)
<1>1. IsSeq(x) /\ IsSeq(<<Close>>)
  <2>1. <<Close>> \in Seq({Close})
    OBVIOUS
  <2>2. QED
    BY <2>1 DEF Lists, IsSeq
<1> DEFINE y == <<Open>> \o x
<1> DEFINE t == y \o <<Close>>
<1>2. /\ IsSeq(y) /\ Len(x) \in Nat /\ Len(y) = Len(x) + 1 /\ y[1] = Open
      /\ \A k \in 2 .. Len(x) + 1 : y[k] = x[k - 1]
  BY <1>1, Cons
<1>3. Brackets(x) = t
  BY DEF Brackets
<1> DEFINE z == <<Close>>
<1>4. IsSeq(z) /\ Len(z) = 1 /\ z[1] = Close
  BY <1>1
<1> HIDE DEF y, z
<1>5. IsSeq(y) /\ IsSeq(z)
  BY <1>2, <1>4
<1>6. /\ IsSeq(y \o z) /\ Len(y \o z) = Len(y) + Len(z)
      /\ \A i \in 1 .. Len(y) : (y \o z)[i] = y[i]
      /\ \A i \in 1 .. Len(z) : (y \o z)[Len(y) + i] = z[i]
  BY <1>5, Concat
<1>7. t = y \o z
  BY DEF z
<1> HIDE DEF t
<1>8. Len(t) = Len(x) + 2 /\ t[Len(x) + 2] = Close
  <2>1. Len(y \o z) = Len(x) + 2 /\ (y \o z)[Len(y) + 1] = Close /\ Len(y) + 1 = Len(x) + 2
    BY <1>2, <1>4, <1>6
  <2>2. QED
    BY <1>7, <2>1
<1>9. \A k \in 2 .. Len(x) + 1 : t[k] = x[k - 1]
  <2>1. \A k \in 2 .. Len(x) + 1 : k \in 1 .. Len(y)
    BY <1>2
  <2>2. QED
    BY <1>2, <1>6, <1>7, <2>1
<1>10. asked = << >> <=> Len(asked) = 0
  BY EmptySeq DEF IsSeq
<1>11. Len(asked) \in Nat
  BY DEF IsSeq
<1>12. Len(t) = IF asked = << >> THEN 2 ELSE 2 * Len(asked) + 1
  BY <1>8, <1>10, <1>11 DEF Lists
<1>13. ASSUME NEW k \in 2 .. Len(t) - 1
       PROVE  IF k % 2 = 1 THEN t[k] = Comma
              ELSE t[k] \notin {Comma, Open, Close} /\ t[k][2] = asked[k \div 2]
  <2>1. k \in Nat /\ k >= 2 /\ k - 1 \in 1 .. Len(x) /\ (k - 1) + 1 = k /\ t[k] = x[k - 1]
    BY <1>2, <1>8, <1>9
  <2>2. (k - 1) % 2 = 1 <=> k % 2 # 1
    BY <2>1, Parity
  <2>3. IF (k - 1) % 2 = 1 THEN IsItem(x[k - 1], asked[k \div 2]) ELSE x[k - 1] = Comma
    BY <2>1 DEF Lists
  <2>4. QED
    BY <2>1, <2>2, <2>3 DEF IsItem
<1>14. IsListOf(t, asked)
  BY <1>8, <1>12, <1>13 DEF IsListOf
<1>15. QED
  BY <1>3, <1>14

LEMMA Associates ==
  ASSUME NEW r, NEW s, NEW t, IsSeq(r), IsSeq(s), IsSeq(t)
  PROVE  (r \o s) \o t = r \o (s \o t)
<1>1. PICK R, S, T : r \in Seq(R) /\ s \in Seq(S) /\ t \in Seq(T)
  BY DEF IsSeq
<1> DEFINE U == R \union S \union T
<1>2. r \in Seq(U) /\ s \in Seq(U) /\ t \in Seq(U)
  BY <1>1
<1> HIDE DEF U
<1>3. QED
  BY <1>2, ConcatAssociative

\* What is written for an active channel, for each st
LEMMA WrittenForOne ==
  ASSUME NEW i, NEW x, IsSeq(x)
  PROVE  /\ << >> \o <<i>> \o << >> \o x = <<i>> \o x
         /\ << >> \o <<i>> \o <<Comma>> \o x = <<i>> \o (<<Comma>> \o x)
         /\ <<Comma>> \o <<i>> \o << >> \o x = <<Comma>> \o (<<i>> \o x)
<1> DEFINE h == <<i>>
<1> DEFINE k == <<Comma>>
<1> DEFINE e == << >>
<1>1. h \in Seq({i}) /\ k \in Seq({Comma}) /\ e \in Seq({})
  OBVIOUS
<1> HIDE DEF h, k, e
<1>2. IsSeq(h) /\ IsSeq(k) /\ IsSeq(e)
  BY <1>1 DEF IsSeq
<1>3. IsSeq(k \o h)
  BY <1>2, Concat
<1>4. e \o h = h /\ h \o e = h /\ (k \o h) \o e = k \o h
  BY <1>2, <1>3, EmptyConcat DEF e
<1>l. Len(h) \in Nat /\ Len(k) \in Nat /\ Len(x) \in Nat
  BY <1>2 DEF IsSeq
<1>5. (h \o k) \o x = h \o (k \o x) /\ (k \o h) \o x = k \o (h \o x)
  <2>1. (h \o k) \o x = h \o (k \o x)
    BY <1>2, <1>l, Associates
  <2>2. (k \o h) \o x = k \o (h \o x)
    BY <1>2, <1>l, Associates
  <2>3. QED
    BY <2>1, <2>2
<1>6. /\ ((e \o h) \o e) \o x = h \o x
      /\ ((e \o h) \o k) \o x = h \o (k \o x)
      /\ ((k \o h) \o e) \o x = k \o (h \o x)
  BY <1>4, <1>5
<1>7. QED
  BY <1>6 DEF h, k, e

LEMMA ChanIsItem ==
  ASSUME NEW c, NEW bad
  PROVE  IsItem(ChanItem(c, bad), c)
BY DEF IsItem, ChanItem, Item, Comma, Open, Close

\* The list of the active channels, but for the one that is written wrong
LEMMA ActiveShape ==
  ASSUME NumChans \in Nat \ {0}, NEW bad
  PROVE  \/ Lists(Active(bad), UpFrom[0])
         \/ Len(UpFrom[0]) = 1 /\ ~is_up[NumChans - 1]
<1> NumChans \in Nat
  OBVIOUS
<1>1. PICK f : Active(bad) = f[0]["FIRST"] /\ Writes(f, bad)
  BY ActiveIs
<1> DEFINE Lone(u) == Len(u) = 1 /\ ~is_up[NumChans - 1]
<1> DEFINE Good(c) ==
      /\ Len(UpFrom[c]) = 0 => \A d \in c .. NumChans - 1 : ~is_up[d]
      /\ Continues(f[c]["OTHER"], UpFrom[c])
      /\ Lists(f[c]["SECOND"], UpFrom[c])
      /\ Lists(f[c]["FIRST"], UpFrom[c]) \/ Lone(UpFrom[c])
<1>2. \A c \in 0 .. NumChans, st \in States : IsSeq(f[c][st]) /\ IsSeq(UpFrom[c])
  BY <1>1, UpFromIs DEF Writes, IsSeq
<1>3. Good(NumChans)
  <2>1. UpFrom[NumChans] = << >> /\ \A st \in States : f[NumChans][st] = << >>
    BY <1>1, UpFromIs DEF Writes
  <2>2. NumChans .. NumChans - 1 = {}
    OBVIOUS
  <2>3. QED
    BY <2>1, <2>2, Empties DEF States
<1>4. ASSUME NEW c \in Chan, Good(c + 1)
      PROVE  Good(c)
  <2> DEFINE u == UpFrom[c + 1]
  <2> DEFINE v == UpFrom[c]
  <2> DEFINE i == ChanItem(c, bad)
  <2>1. c + 1 \in 0 .. NumChans /\ c \in 0 .. NumChans
    BY DEF Chan
  <2>2. CASE ~is_up[c]
    <3>1. v = u /\ \A st \in States : f[c][st] = f[c + 1][st]
      BY <1>1, <2>2, UpFromIs DEF Writes
    <3>2. \A d \in c .. NumChans - 1 : d = c \/ d \in c + 1 .. NumChans - 1
      BY DEF Chan
    <3>3. QED
      BY <1>4, <2>2, <3>1, <3>2 DEF States
  <2>3. CASE is_up[c]
    <3>1. v = <<c>> \o u
      BY <2>3, UpFromIs
    <3>2. IsSeq(u) /\ \A st \in States : IsSeq(f[c + 1][st])
      BY <1>2, <2>1 DEF States
    <3>3. IsItem(i, c)
      BY ChanIsItem
    <3>4. Len(u) \in Nat /\ Len(v) = Len(u) + 1
      BY <3>1, <3>2, Cons
    <3>5. \A st \in States : f[c][st] = BeforeItem(st) \o <<i>> \o AfterItem(st, c)
                                          \o f[c + 1][NextState(st)]
      BY <1>1, <2>3 DEF Writes
    <3>6. IsSeq(f[c + 1]["OTHER"]) /\ IsSeq(f[c + 1]["SECOND"])
      BY <3>2 DEF States
    <3> HIDE DEF i, u, v
    <3>7. Lists(<<i>> \o f[c + 1]["OTHER"], v)
      BY <1>4, <3>1, <3>2, <3>3, ItemFirst DEF u
    <3>8. f[c]["OTHER"] = <<Comma>> \o (<<i>> \o f[c + 1]["OTHER"])
      <4>1. f[c]["OTHER"] = <<Comma>> \o <<i>> \o << >> \o f[c + 1]["OTHER"]
        BY <3>5 DEF States, BeforeItem, AfterItem, NextState
      <4>2. QED
        BY <3>6, <4>1, WrittenForOne, Zenon
    <3>9. f[c]["SECOND"] = <<i>> \o f[c + 1]["OTHER"]
      <4>1. f[c]["SECOND"] = << >> \o <<i>> \o << >> \o f[c + 1]["OTHER"]
        BY <3>5 DEF States, BeforeItem, AfterItem, NextState
      <4>2. QED
        BY <3>6, <4>1, WrittenForOne, Zenon
    <3>10. Continues(f[c]["OTHER"], v)
      BY <3>4, <3>7, <3>8, CommaFirst
    <3>11. Lists(f[c]["FIRST"], v) \/ Lone(v)
      <4>1. CASE c < NumChans - 1
        <5>1. f[c]["FIRST"] = <<i>> \o (<<Comma>> \o f[c + 1]["SECOND"])
          <6>1. f[c]["FIRST"] = << >> \o <<i>> \o <<Comma>> \o f[c + 1]["SECOND"]
            BY <3>5, <4>1 DEF States, BeforeItem, AfterItem, NextState
          <6>2. QED
            BY <3>6, <6>1, WrittenForOne, Zenon
        <5>2. CASE Len(u) # 0
          BY <1>4, <3>1, <3>2, <3>3, <5>1, <5>2, ItemThenList DEF u
        <5>3. CASE Len(u) = 0
          <6>1. NumChans - 1 \in c + 1 .. NumChans - 1
            BY <4>1 DEF Chan
          <6>2. QED
            BY <1>4, <3>4, <5>3, <6>1 DEF u
        <5>4. QED
          BY <5>2, <5>3
      <4>2. CASE ~(c < NumChans - 1)
        <5>1. c + 1 = NumChans
          BY <4>2 DEF Chan
        <5>2. u = << >> /\ f[c + 1]["SECOND"] = << >>
          BY <1>1, <5>1, UpFromIs DEF u, Writes, States
        <5>3. f[c]["FIRST"] = <<i>> \o << >>
          <6>1. f[c]["FIRST"] = << >> \o <<i>> \o << >> \o f[c + 1]["SECOND"]
            BY <3>5, <4>2 DEF States, BeforeItem, AfterItem, NextState
          <6>2. f[c]["FIRST"] = <<i>> \o f[c + 1]["SECOND"]
            BY <3>6, <6>1, WrittenForOne, Zenon
          <6>3. QED
            BY <5>2, <6>2, Zenon
        <5>4. Continues(<< >>, u)
          BY <5>2, Empties
        <5>5. QED
          BY <3>1, <3>2, <3>3, <5>3, <5>4, ItemFirst
      <4>3. QED
        BY <4>1, <4>2
    <3>12. QED
      BY <3>4, <3>7, <3>9, <3>10, <3>11 DEF v
  <2>4. QED
    BY <2>2, <2>3
<1> DEFINE S == {c \in 0 .. NumChans : Good(c)}
<1> HIDE DEF Good
<1>5. NumChans \in S /\ \A c \in 0 .. NumChans - 1 : c + 1 \in S => c \in S
  BY <1>3, <1>4 DEF Chan
<1> HIDE DEF S
<1>6. 0 .. NumChans \subseteq S
  BY <1>5, DownTo
<1>7. 0 \in S
  BY <1>6
<1>8. Good(0)
  BY <1>7 DEF S
<1>9. QED
  BY <1>1, <1>8 DEF Good

\* Separated puts commas between the items.
LEMMA ListsSeparated ==
  ASSUME NEW n \in Nat, NEW items, NEW asked, Len(items) = n, Len(asked) = n,
         \A k \in 1 .. n : IsItem(items[k], asked[k])
  PROVE  Lists(Separated(items), asked)
<1> DEFINE L == IF n = 0 THEN 0 ELSE 2 * n - 1
<1> DEFINE At(k) == IF k % 2 = 1 THEN items[(k + 1) \div 2] ELSE Comma
<1> DEFINE x == [k \in 1 .. L |-> At(k)]
<1>1. L \in Nat /\ 1 .. 2 * n - 1 = 1 .. L
  OBVIOUS
<1>2. Separated(items) = x
  BY <1>1 DEF Separated
<1>3. ASSUME NEW k \in 1 .. L
      PROVE  x[k] = At(k) /\ (k % 2 = 1 => (k + 1) \div 2 \in 1 .. n)
  OBVIOUS
<1> HIDE DEF At, L
<1>4. x \in [1 .. L -> {At(k) : k \in 1 .. L}]
  OBVIOUS
<1> HIDE DEF x
<1>5. IsSeq(x) /\ Len(x) = L
  BY <1>1, <1>4, Tabulated
<1>6. ASSUME NEW k \in 1 .. Len(x)
      PROVE  IF k % 2 = 1 THEN IsItem(x[k], asked[(k + 1) \div 2]) ELSE x[k] = Comma
  <2>1. x[k] = At(k) /\ (k % 2 = 1 => (k + 1) \div 2 \in 1 .. n)
    BY <1>3, <1>5
  <2>2. QED
    BY <2>1 DEF At
<1>7. Lists(x, asked)
  BY <1>5, <1>6 DEF Lists, L
<1>8. QED
  BY <1>2, <1>7

\* The list of all there are n of
LEMMA AllListed ==
  ASSUME NEW n \in Nat, NEW S, NEW items \in [1 .. n -> S],
         \A k \in 1 .. n : IsItem(items[k], k - 1)
  PROVE  IsListOf(Brackets(Separated(items)), [k \in 1 .. n |-> k - 1])
<1> DEFINE asked == [k \in 1 .. n |-> k - 1]
<1>1. asked \in [1 .. n -> Int] /\ \A k \in 1 .. n : asked[k] = k - 1
  OBVIOUS
<1> HIDE DEF asked
<1>2. IsSeq(asked) /\ Len(asked) = n
  BY <1>1, Tabulated
<1>3. Len(items) = n
  BY Tabulated
<1>4. Lists(Separated(items), asked)
  BY <1>1, <1>2, <1>3, ListsSeparated
<1>5. IsListOf(Brackets(Separated(items)), asked)
  BY <1>2, <1>4, ListShape
<1>6. QED
  BY <1>5 DEF asked

LEMMA ItemIsItem ==
  ASSUME NEW kind, NEW n
  PROVE  IsItem(Item(kind, n), n) /\ Item(kind, n) # Open
BY DEF IsItem, Item, Comma, Open, Close

LEMMA ListsOfAll ==
  /\ \A bad : IsListOf(Brackets(Separated([k \in 1 .. NumChans |-> ChanItem(k - 1, bad)])),
                       [k \in 1 .. NumChans |-> k - 1])
  /\ IsListOf(Brackets(Separated([k \in 1 .. NumAccounts |-> Item("account", k - 1)])),
              [k \in 1 .. NumAccounts |-> k - 1])
  /\ IsListOf(Brackets(Separated([k \in 1 .. NumChans |-> Item("chan", k - 1)])),
              [k \in 1 .. NumChans |-> k - 1])
<1>1. NumChans \in Nat /\ NumAccounts \in Nat
  BY InterfaceAssumption
<1>2. ASSUME NEW bad
      PROVE  IsListOf(Brackets(Separated([k \in 1 .. NumChans |-> ChanItem(k - 1, bad)])),
                      [k \in 1 .. NumChans |-> k - 1])
  <2> DEFINE items == [k \in 1 .. NumChans |-> ChanItem(k - 1, bad)]
  <2>1. items \in [1 .. NumChans -> {items[k] : k \in 1 .. NumChans}]
    OBVIOUS
  <2>2. \A k \in 1 .. NumChans : IsItem(items[k], k - 1)
    BY ChanIsItem
  <2> HIDE DEF items
  <2>3. IsListOf(Brackets(Separated(items)), [k \in 1 .. NumChans |-> k - 1])
    BY <1>1, <2>1, <2>2, AllListed
  <2>4. QED
    BY <2>3 DEF items
<1>3. ASSUME NEW kind, NEW n \in Nat
      PROVE  IsListOf(Brackets(Separated([k \in 1 .. n |-> Item(kind, k - 1)])),
                      [k \in 1 .. n |-> k - 1])
  <2> DEFINE items == [k \in 1 .. n |-> Item(kind, k - 1)]
  <2>1. items \in [1 .. n -> {items[k] : k \in 1 .. n}]
    OBVIOUS
  <2>2. \A k \in 1 .. n : IsItem(items[k], k - 1)
    BY ItemIsItem
  <2> HIDE DEF items
  <2>3. IsListOf(Brackets(Separated(items)), [k \in 1 .. n |-> k - 1])
    BY <2>1, <2>2, AllListed
  <2>4. QED
    BY <2>3 DEF items
<1>4. QED
  BY <1>1, <1>2, <1>3

\* An answer without brackets does not begin with one.
LEMMA PlainAnswers ==
  ASSUME NEW n \in Nat, NEW items, DOMAIN items = 1 .. n, items # << >>,
         \A k \in 1 .. n : items[k] # Open,
         items \in [1 .. n -> {items[k] : k \in 1 .. n}]
  PROVE  items[1] # Open
<1>1. CASE n = 0
  <2>1. IsSeq(items) /\ Len(items) = n
    BY Tabulated
  <2>2. QED
    BY <1>1, <2>1, EmptySeq DEF IsSeq
<1>2. CASE n # 0
  BY <1>2
<1>3. QED
  BY <1>1, <1>2

\* What svd_exec_msg answers to an accepted message
LEMMA ExecIsList ==
  ASSUME NEW m \in Message, Accepted(m), NEW bad,
         svd_exec_msg(m, bad) # << >>, svd_exec_msg(m, bad)[1] = Open, ~LoneActive(m)
  PROVE  IsListOf(svd_exec_msg(m, bad), Asked(m))
<1> DEFINE t == svd_exec_msg(m, bad)
<1>1. \/ m.cmd \in Plain
      \/ m.cmd \in Statistics /\ Selection(m) \in {"active", "all", "number"}
  BY InterfaceAssumption DEF Accepted, Selection
<1>2. CASE m.cmd = "jbt"
  <2>1. t = Totals(bad)
    BY <1>2 DEF svd_exec_msg
  <2>2. t = <<Item("error", 0)>> \/ t = <<Item("totals", 0)>>
    BY <2>1 DEF Totals
  <2>3. QED
    BY <2>2, ItemIsItem
<1>3. CASE m.cmd = "shutdown"
  <2>1. t = <<Item("shutdown", 0)>>
    BY <1>3 DEF svd_exec_msg
  <2>2. QED
    BY <2>1, ItemIsItem
<1>4. CASE m.cmd = "get_regs"
  <2>1. t = Brackets(Separated([k \in 1 .. NumAccounts |-> Item("account", k - 1)]))
    BY <1>4 DEF svd_exec_msg
  <2>2. Asked(m) = [k \in 1 .. NumAccounts |-> k - 1]
    BY <1>4 DEF Asked, Statistics
  <2>3. QED
    BY <2>1, <2>2, ListsOfAll
<1>5. CASE m.cmd = "get_chans"
  <2>1. t = Brackets(Separated([k \in 1 .. NumChans |-> Item("chan", k - 1)]))
    BY <1>5 DEF svd_exec_msg
  <2>2. Asked(m) = [k \in 1 .. NumChans |-> k - 1]
    BY <1>5 DEF Asked, Statistics
  <2>3. QED
    BY <2>1, <2>2, ListsOfAll
<1>6. CASE m.cmd \in Statistics /\ Selection(m) \in {"active", "all", "number"}
  <2>1. t = svd_exec_2af(m, bad)
    BY <1>6 DEF svd_exec_msg, Statistics
  <2>c. \A c : ChanItem(c, bad) # Open
    BY ChanIsItem DEF IsItem
  <2>2. CASE Selection(m) = "number"
    <3>1. t = OneChan(m.n, bad)
      BY <2>1, <2>2 DEF svd_exec_2af
    <3>2. \/ t = <<ChanItem(m.n, bad)>>
          \/ t = <<Item("error", m.n)>>
      BY <3>1 DEF OneChan
    <3>3. QED
      BY <2>c, <3>2, ItemIsItem
  <2>3. CASE Selection(m) = "all"
    <3> DEFINE items == [k \in 1 .. NumChans |-> ChanItem(k - 1, bad)]
    <3>1. t = IF Json(m) THEN Brackets(Separated(items)) ELSE items
      BY <2>1, <2>3 DEF svd_exec_2af, AllChans
    <3>2. Asked(m) = [k \in 1 .. NumChans |-> k - 1]
      BY <1>6, <2>3 DEF Asked, Statistics
    <3>3. CASE Json(m)
      BY <3>1, <3>2, <3>3, ListsOfAll
    <3>4. CASE ~Json(m)
      <4>1. 1 \in 1 .. NumChans
        BY InterfaceAssumption
      <4>2. items[1] = ChanItem(1 - 1, bad)
        BY <4>1
      <4> HIDE DEF items
      <4>3. t = items
        BY <3>1, <3>4
      <4>4. QED
        BY <2>c, <4>2, <4>3
    <3>5. QED
      BY <3>3, <3>4
  <2>4. CASE Selection(m) = "active"
    <3> DEFINE u == UpFrom[0]
    <3> DEFINE items == [k \in 1 .. Len(u) |-> ChanItem(u[k], bad)]
    <3>1. t = IF Json(m) THEN Brackets(Active(bad)) ELSE items
      BY <2>1, <2>4 DEF svd_exec_2af, ActiveChans
    <3>2. Asked(m) = u
      BY <1>6, <2>4 DEF Asked, Statistics
    <3>u. IsSeq(u) /\ Len(u) \in Nat
      BY InterfaceAssumption, UpFromIs DEF IsSeq
    <3>3. CASE Json(m)
      <4>1. Lists(Active(bad), u) \/ (Len(u) = 1 /\ ~is_up[NumChans - 1])
        BY InterfaceAssumption, ActiveShape
      <4>2. ~(Len(u) = 1 /\ ~is_up[NumChans - 1])
        BY <1>6, <2>4, <3>2 DEF LoneActive
      <4>3. IsListOf(Brackets(Active(bad)), u)
        BY <3>u, <4>1, <4>2, ListShape
      <4>4. QED
        BY <3>1, <3>2, <3>3, <4>3
    <3>4. CASE ~Json(m)
      <4>1. t = items
        BY <3>1, <3>4
      <4>2. /\ DOMAIN items = 1 .. Len(u) /\ \A k \in 1 .. Len(u) : items[k] # Open
            /\ items \in [1 .. Len(u) -> {items[k] : k \in 1 .. Len(u)}]
        BY <2>c
      <4> HIDE DEF items
      <4>3. items # << >>
        BY <4>1
      <4>4. items[1] # Open
        BY <3>u, <4>2, <4>3, PlainAnswers
      <4>5. QED
        BY <4>1, <4>4
    <3>5. QED
      BY <3>3, <3>4
  <2>5. QED
    BY <1>6, <2>2, <2>3, <2>4
<1>7. QED
  BY <1>1, <1>2, <1>3, <1>4, <1>5, <1>6 DEF Plain

LEMMA TextIsList ==
  ASSUME NEW m \in Message, NEW bad, NEW memory, ~LoneActive(m),
         Text(m, bad, memory) # <<Fail>>, Text(m, bad, memory) # << >>,
         Text(m, bad, memory)[1] = Open
  PROVE  IsListOf(Text(m, bad, memory), Asked(m))
<1>1. Accepted(m) /\ Text(m, bad, memory) = svd_exec_msg(m, bad)
  BY DEF Text
<1>2. QED
  BY <1>1, ExecIsList

LEMMA SameChannels ==
  ASSUME UNCHANGED is_up
  PROVE  /\ UpFrom' = UpFrom
         /\ \A m : Asked(m)' = Asked(m) /\ LoneActive(m)' = LoneActive(m)
<1>1. UpFrom' = UpFrom
  BY DEF UpFrom
<1>2. ASSUME NEW m
      PROVE  Asked(m)' = Asked(m)
  BY <1>1 DEF Asked
<1>3. QED
  BY <1>1, <1>2 DEF LoneActive

LEMMA ListsKept ==
  ASSUME AnswersAreLists, LifecycleNext
  PROVE  AnswersAreLists'
<1>1. ASSUME UNCHANGED ifVars
      PROVE  AnswersAreLists'
  <2>1. UNCHANGED is_up /\ UNCHANGED answered
    BY <1>1 DEF ifVars
  <2>2. UpFrom' = UpFrom
    BY <2>1, SameChannels
  <2>3. QED
    BY <2>1, <2>2 DEF AnswersAreLists, Asked, LoneActive
<1>2. ASSUME answered' = NoAnswer
      PROVE  AnswersAreLists'
  BY <1>2 DEF AnswersAreLists, NoAnswer
<1>3. ASSUME NEW m \in Message, NEW bad, NEW memory, svd_if_handler(m, bad, memory)
      PROVE  AnswersAreLists'
  <2>1. answered' = [msg |-> m, text |-> Text(m, bad, memory)] /\ UNCHANGED is_up
    BY <1>3 DEF svd_if_handler
  <2>2. Asked(m)' = Asked(m) /\ LoneActive(m)' = LoneActive(m)
    BY <2>1, SameChannels
  <2> DEFINE t == Text(m, bad, memory)
  <2>3. t # <<Fail>> /\ t # << >> /\ t[1] = Open /\ ~LoneActive(m) => IsListOf(t, Asked(m))
    BY TextIsList
  <2>4. answered'.msg = m /\ answered'.text = t
    BY <2>1
  <2> HIDE DEF t
  <2>5. QED
    BY <2>2, <2>3, <2>4 DEF AnswersAreLists
<1>4. CASE \E m \in Message, bad \in SUBSET {c \in Chan : is_up[c]}, memory \in BOOLEAN :
             Command(m, bad, memory)
  BY <1>3, <1>4 DEF Command
<1>5. CASE CallsChange \/ svd_r_shutdown
  BY <1>2, <1>5 DEF CallsChange, MediaSwitched, svd_r_shutdown
<1>6. CASE StepSucceeds \/ StepIsSkipped \/ StepFails
  BY <1>1, <1>6 DEF StepSucceeds, StepIsSkipped, StepFails
<1>7. CASE free \/ destroy \/ nua_shutdown \/ svd_shutdown \/ su_home_deinit \/ close_ifd
             \/ Exits \/ term_handler
  BY <1>1, <1>7 DEF free, destroy, nua_shutdown, svd_shutdown, su_home_deinit, close_ifd,
     Exits, term_handler, Done
<1>8. QED
  BY <1>4, <1>5, <1>6, <1>7 DEF LifecycleNext

\* AnswersAreLists: every list in JSON is one, but that of a lone active channel
\* which is not the last of the board (it has a comma too many), for any number of channels and accounts, whichever are active and
\* whichever cannot be read.
THEOREM AnswersEverLists == LifecycleSpec => []AnswersAreLists
<1>1. LifecycleInit => AnswersAreLists
  BY DEF LifecycleInit, InterfaceInit, AnswersAreLists
<1>2. AnswersAreLists /\ [LifecycleNext]_<<lifeVars, ifVars>> => AnswersAreLists'
  <2>1. CASE UNCHANGED <<lifeVars, ifVars>>
    <3>1. UNCHANGED is_up /\ UNCHANGED answered
      BY <2>1 DEF ifVars
    <3>2. UpFrom' = UpFrom
      BY <3>1, SameChannels
    <3>3. QED
      BY <3>1, <3>2 DEF AnswersAreLists, Asked, LoneActive
  <2>2. QED
    BY <2>1, ListsKept
<1>3. QED
  BY <1>1, <1>2, PTL DEF LifecycleSpec
=============================================================================
