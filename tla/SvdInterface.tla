---------------------------- MODULE SvdInterface ----------------------------
(***************************************************************************)
(* The control socket, server side: a datagram with a command is parsed    *)
(* (svd_if_srv_parse), executed (svd_exec_msg) and answered with a text.   *)
(*                                                                         *)
(* A text is the sequence of what svd_addtobuf was called to add: brackets *)
(* and commas, and one Item for a channel, an account or an error.         *)
(*                                                                         *)
(* Abstracted: what is inside an item, numbers and names, and spacing.     *)
(* abs_idx is the index of the channel, as ab_create sets it.              *)
(***************************************************************************)
EXTENDS Integers, Sequences

CONSTANTS NumChans,    \* svd->ab->chans_num, at least 1
          NumAccounts, \* accounts in g_conf
          ChansMax,    \* CHANS_MAX, the length of ab->pchans
          Message      \* what clients may send

Chan == 0 .. NumChans - 1

Statistics == {"get_jb_stat", "get_rtcp_stat"}
Plain == {"jbt", "shutdown", "get_regs", "get_chans"}

\* chan is the text before ";", with n if it is a number; fmt the one after it
ASSUME InterfaceAssumption ==
  /\ NumChans \in Nat \ {0} /\ NumAccounts \in Nat
  /\ NumChans <= ChansMax
  /\ \A m \in Message :
       /\ DOMAIN m = {"cmd", "chan", "n", "fmt"}
       /\ m.chan \in {"missing", "default", "all", "active", "number"}
       /\ m.n \in Int
       /\ m.fmt \in {"missing", "default", "cli", "json", "unknown"}

VARIABLES is_up,    \* ab_chan_s.statistics.is_up, by channel
          answered  \* history: the last message and the answer, until is_up changes

ifVars == <<is_up, answered>>

Item(kind, n) == <<kind, n>>
Open == <<"[">>
Close == <<"]">>
Comma == <<",">>
Fail == <<"fail">>

NoAnswer == [msg |-> << >>, text |-> << >>]

InterfaceInit == is_up = [c \in Chan |-> FALSE] /\ answered = NoAnswer

-----------------------------------------------------------------------------
\* svd_if_srv_parse accepts it.  Only commands on statistics have arguments.
Accepted(m) ==
  \/ m.cmd \in Plain
  \/ m.cmd \in Statistics /\ m.chan # "missing"
                          /\ m.fmt \in {"default", "cli", "json"}

\* The defaults of both commands are ch_t_ACTIVE and msg_fmt_JSON.
Selection(m) == IF m.chan = "default" THEN "active" ELSE m.chan
Json(m) == m.fmt \in {"default", "json"}

\* svd_jb_for_chan, svd_rtcp_for_chan: the statistics are read again if the
\* channel is up, which fails on the channels of bad.
ChanItem(c, bad) ==
  IF is_up[c] /\ c \in bad THEN Item("error", c) ELSE Item("chan", c)

\* svd_exec_jbt gives up at the first channel that cannot be read.
Totals(bad) ==
  IF \E c \in Chan : is_up[c] /\ c \in bad
  THEN <<Item("error", 0)>> ELSE <<Item("totals", 0)>>

\* for (i = 0; i < n; i++) { add item i; if (i < n - 1) add comma }
Separated(items) ==
  [k \in 1 .. 2 * Len(items) - 1 |->
     IF k % 2 = 1 THEN items[(k + 1) \div 2] ELSE Comma]

Brackets(text) == <<Open>> \o text \o <<Close>>

AllChans(m, bad) ==
  LET items == [k \in 1 .. NumChans |-> ChanItem(k - 1, bad)]
  IN  IF Json(m) THEN Brackets(Separated(items)) ELSE items

\* The active channels.  In JSON st counts how many were written: a comma is
\* written after the first one, which is not the last channel, and before
\* each one after the second.
Wrong_BeforeItem(st) == IF st = "SECOND" THEN <<Comma>> ELSE << >>
BeforeItem(st) == IF st = "OTHER" THEN <<Comma>> ELSE << >>

AfterItem(st, c) ==
  IF st = "FIRST" /\ c < NumChans - 1 THEN <<Comma>> ELSE << >>

NextState(st) == IF st = "FIRST" THEN "SECOND" ELSE "OTHER"

Active(bad) ==
  LET from[c \in 0 .. NumChans] ==
        [st \in {"FIRST", "SECOND", "OTHER"} |->
           IF c = NumChans THEN << >>
           ELSE IF ~is_up[c] THEN from[c + 1][st]
           ELSE BeforeItem(st) \o <<ChanItem(c, bad)>> \o AfterItem(st, c)
                  \o from[c + 1][NextState(st)]]
  IN  from[0]["FIRST"]

\* The active channels from c on, in their order
UpFrom[c \in 0 .. NumChans] ==
  IF c = NumChans THEN << >>
  ELSE IF ~is_up[c] THEN UpFrom[c + 1] ELSE <<c>> \o UpFrom[c + 1]

ActiveChans(m, bad) ==
  IF Json(m) THEN Brackets(Active(bad))
  ELSE [k \in 1 .. Len(UpFrom[0]) |-> ChanItem(UpFrom[0][k], bad)]

\* pchans has an entry for the channels of the board only.
OneChan(n, bad) ==
  IF n \in 0 .. ChansMax - 1 /\ n \in Chan
  THEN <<ChanItem(n, bad)>> ELSE <<Item("error", n)>>

svd_exec_2af(m, bad) ==
  CASE Selection(m) = "number" -> OneChan(m.n, bad)
    [] Selection(m) = "all"    -> AllChans(m, bad)
    [] Selection(m) = "active" -> ActiveChans(m, bad)

svd_exec_msg(m, bad) ==
  CASE m.cmd = "jbt"       -> Totals(bad)
    [] m.cmd = "shutdown"  -> <<Item("shutdown", 0)>>
    [] m.cmd = "get_regs"  -> Brackets(Separated(
                                [k \in 1 .. NumAccounts |-> Item("account", k - 1)]))
    [] m.cmd = "get_chans" -> Brackets(Separated(
                                [k \in 1 .. NumChans |-> Item("chan", k - 1)]))
    [] OTHER               -> svd_exec_2af(m, bad)

-----------------------------------------------------------------------------
\* svd_if_handler.  Without memory for the answer it is the one for failures,
\* though what the command does is done.
Text(m, bad, memory) ==
  IF ~Accepted(m) THEN <<Fail>>
  ELSE IF memory \/ svd_exec_msg(m, bad) = << >> THEN svd_exec_msg(m, bad)
  ELSE <<Fail>>

svd_if_handler(m, bad, memory) ==
  /\ answered' = [msg |-> m, text |-> Text(m, bad, memory)]
  /\ UNCHANGED is_up

\* Calls begin and end (module SvdMedia).
MediaSwitched ==
  /\ \E c \in Chan : is_up' = [is_up EXCEPT ![c] = ~@]
  /\ answered' = NoAnswer

-----------------------------------------------------------------------------
(***************************************************************************)
(* Properties                                                              *)
(***************************************************************************)
\* The channels and accounts that an answer is about, in their order
Asked(m) ==
  CASE m.cmd = "get_regs" -> [k \in 1 .. NumAccounts |-> k - 1]
    [] m.cmd = "get_chans" \/ (m.cmd \in Statistics /\ Selection(m) = "all")
                          -> [k \in 1 .. NumChans |-> k - 1]
    [] OTHER              -> UpFrom[0]

\* The one list that svd_exec_2af writes wrong (svd_server_if.c:392): a comma
\* follows the only active channel, unless it is the last of the board.
LoneActive(m) ==
  /\ m.cmd \in Statistics /\ Selection(m) = "active"
  /\ Len(Asked(m)) = 1 /\ ~is_up[NumChans - 1]

IsListOf(t, asked) ==
  /\ Len(t) = (IF asked = << >> THEN 2 ELSE 2 * Len(asked) + 1)
  /\ t[Len(t)] = Close
  /\ \A k \in 2 .. Len(t) - 1 :
       IF k % 2 = 1 THEN t[k] = Comma
       ELSE t[k] \notin {Comma, Open, Close} /\ t[k][2] = asked[k \div 2]

\* Every other list in JSON is one: brackets around the channels that were
\* asked for, each once and in order, with a comma between any two and none
\* elsewhere, whichever of them are active and whichever cannot be read.
AnswersAreLists ==
  LET m == answered.msg
      t == answered.text
  IN  answered # NoAnswer /\ t # <<Fail>> /\ t # << >> /\ t[1] = Open
        /\ ~LoneActive(m)
      => IsListOf(t, Asked(m))
=============================================================================
