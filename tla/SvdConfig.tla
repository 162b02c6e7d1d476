------------------------------ MODULE SvdConfig ------------------------------
(***************************************************************************)
(* Loading /etc/config/svd (svd_conf_init).  ucimap hands the sections of  *)
(* the file, in their order, to the callbacks main_add, account_add,       *)
(* dialplan_add, codec_add and channel_add, which fill g_conf; then        *)
(* svd_conf_init decides whether the program can start with it.  A section *)
(* sees only what the sections above it have left in g_conf.               *)
(*                                                                         *)
(* Abstracted: strings are names, and a word is the number of its enum.  A *)
(* word that is unknown and a number 0 in a codec or channel section have  *)
(* no effect and are not among its options.  What matters of user, domain, *)
(* password and rtp_interface is that all are given.  Memory is never      *)
(* short.                                                                  *)
(***************************************************************************)
EXTENDS Integers, Sequences, FiniteSets

CONSTANTS Chan,          \* 0 .. g_conf.channels - 1
          Name,          \* account names, up to upper and lower case
          CodecOrder,    \* the codecs of g_conf.cp but the last, in order
          TelephoneEvent,\* the last one, TELEPHONE_EVENT_CODEC
          CodMasSize,    \* COD_MAS_SIZE, the length of account->codecs
          Prefix,        \* prefixes of the dial plan
          Default,       \* the initial codec_t, by codec
          Section,       \* the sections that the file may have
          MaxSections,   \* bound: sections in the file
          None           \* an option that is not given, a name that is unknown

Codec == {CodecOrder[n] : n \in DOMAIN CodecOrder} \union {TelephoneEvent}
CodecOption == {"pkt_size", "user_payload", "bpack", "jb_type", "jb_loc_adpt",
                "jb_scaling", "jb_init_sz", "jb_min_sz", "jb_max_sz"}
ChanOption == {"enc_dB", "dec_dB", "VAD_cfg", "HPF_is_ON", "mode", "nlp",
               "ne_nb", "fe_nb", "cid"}

\* Values of wlec_mode_e and wlec_nlp_e
NE == 2
NFE == 3
NlpOff == 1

MainSection == [type : {"main"}, rtp_port_first : Nat, rtp_port_last : Nat,
                sip_tos : Nat, rtp_tos : Nat]
AccountSection ==
  [type : {"account"}, name : Name, complete : BOOLEAN, disabled : BOOLEAN,
   codecs : Seq(Codec \union {None}), dtmf : {"rfc2883", "info", "off", None},
   outgoing_priority : Seq(Int), ring_incoming : Seq(BOOLEAN)]
DialplanSection ==
  [type : {"dialplan"}, prefix : Prefix \union {None},
   account : Name \union {None}, replace : Prefix \union {None},
   remove_prefix : BOOLEAN]
Options(s, names) == /\ DOMAIN s.options \subseteq names
                     /\ \A o \in names : o \in DOMAIN s.options
                                          => s.options[o] \in Int
IsCodecSection(s) == /\ s.type = "codec" /\ s.codec \in Codec \union {None}
                     /\ Options(s, CodecOption)
IsChanSection(s) == /\ s.type = "channel" /\ s.channel \in Int
                    /\ Options(s, ChanOption)

ASSUME ConfigAssumption ==
  /\ \A s \in Section :
       \/ s \in MainSection \union AccountSection \union DialplanSection
       \/ IsCodecSection(s) \/ IsChanSection(s)
  /\ Chan \subseteq Nat /\ CodMasSize \in Nat
  /\ CodecOrder \in Seq(Codec \ {TelephoneEvent, None})
  \* g_conf.cp has 11 codecs (svd_cfg.c:1334-1432), COD_MAS_SIZE is 15.
  /\ Len(CodecOrder) + 2 < CodMasSize
  /\ Default \in [Codec -> [CodecOption -> Int]]
  /\ None \notin Name \union Prefix \union Codec

VARIABLES load,        \* what svd_conf_init is doing, or how it ended
          file,        \* the sections read so far
          main,        \* the options of main in g_conf
          sip_account, \* g_conf.sip_account
          dial_plan,   \* g_conf.dial_plan
          codecs,      \* g_conf.codecs
          channels,    \* g_conf.audio_prms, wlec_prms; chan->cid_std
          account_from, dial_plan_from  \* history: the section of each item

vars == <<load, file, main, sip_account, dial_plan, codecs, channels,
          account_from, dial_plan_from>>

Last(f) == f[Len(f)]
AppendIf(cond, s, x) == IF cond THEN Append(s, x) ELSE s

\* What is given replaces what is there.
Override(old, given) ==
  [o \in DOMAIN old |-> IF o \in DOMAIN given THEN given[o] ELSE old[o]]

-----------------------------------------------------------------------------
(***************************************************************************)
(* config main, config account                                             *)
(***************************************************************************)
\* sip_tos and rtp_tos are unsigned char.
MainOf(s) == [s EXCEPT !.sip_tos = @ % 256, !.rtp_tos = @ % 256]

\* get_codec_type finds no type for an unknown name: it is left out.
Known(names) ==
  LET kept == {k \in DOMAIN names : names[k] # None}
      place(n) == CHOOSE k \in kept : Cardinality({j \in kept : j <= k}) = n
  IN  [n \in 1 .. Cardinality(kept) |-> names[place(n)]]

\* The codecs of an account; none when its list has no codec at all
Wrong_AccountCodecs(s) ==
  LET listed == IF s.codecs = << >> THEN CodecOrder ELSE s.codecs
  IN  AppendIf(listed # << >> /\ s.dtmf \in {"rfc2883", None},
               listed, TelephoneEvent)
AccountCodecs(s) ==
  LET listed == IF s.codecs = << >> THEN CodecOrder ELSE Known(s.codecs)
  IN  AppendIf(listed # << >> /\ s.dtmf \in {"rfc2883", None},
               listed, TelephoneEvent)

\* A list has a value for each channel from the first; without a list every
\* channel has the default.
PerChan(list, missing, default) ==
  [c \in Chan |-> IF list = << >> THEN default
                  ELSE IF c < Len(list) THEN list[c + 1] ELSE missing]

\* The accounts that account_add keeps
Usable(s) == s.type = "account" /\ s.complete /\ AccountCodecs(s) # << >>

\* The default outgoing_priority gives "more priority to accounts defined
\* first" (svd_cfg.c:388).
Wrong_DefaultPriority(accounts) ==
  Cardinality({a \in DOMAIN accounts : accounts[a].enabled}) + 1
DefaultPriority(accounts) == Len(accounts) + 1

AccountOf(s) ==
  [name |-> s.name, enabled |-> ~s.disabled, codecs |-> AccountCodecs(s),
   outgoing_priority |->
     PerChan(s.outgoing_priority, 0, DefaultPriority(sip_account)),
   ring_incoming |-> PerChan(s.ring_incoming, FALSE, TRUE)]

-----------------------------------------------------------------------------
(***************************************************************************)
(* config dialplan                                                         *)
(***************************************************************************)
Named(n) == {a \in DOMAIN sip_account : sip_account[a].name = n}

\* The index from 0 of the first account of that name
Wrong_AccountIndex(n) ==
  (CHOOSE a \in Named(n) : \A b \in Named(n) : b <= a) - 1
AccountIndex(n) ==
  (CHOOSE a \in Named(n) : \A b \in Named(n) : a <= b) - 1

Resolves(s) == s.prefix # None /\ s.account # None /\ Named(s.account) # {}

RecordOf(s) ==
  [prefix |-> s.prefix, account |-> AccountIndex(s.account),
   replace |-> IF s.replace # None THEN s.replace
               ELSE IF s.remove_prefix THEN None ELSE s.prefix]

-----------------------------------------------------------------------------
(***************************************************************************)
(* config codec, config channel                                            *)
(***************************************************************************)
\* The scaling, here in sixteenths, is kept in a char, and below 1 it has no
\* effect.  A bool that is not given is off.
Wrong_CodecOptions(s) == [s.options EXCEPT !["jb_scaling"] = @ % 256]
CodecOptions(s) ==
  LET o == s.options IN
  [n \in {n \in DOMAIN o : n = "jb_scaling" => o[n] >= 16}
         \union {"jb_loc_adpt"}
     |-> IF n \notin DOMAIN o THEN 0
         ELSE IF n = "jb_scaling" THEN o[n] % 256 ELSE o[n]]

BoolOff == [HPF_is_ON |-> 0, nlp |-> NlpOff]
ChanOptions(s) ==
  [n \in DOMAIN s.options \union DOMAIN BoolOff
     |-> IF n \in DOMAIN s.options THEN s.options[n] ELSE BoolOff[n]]

\* With near and far end windows neither may be 16 ms long.
Wrong_FitWindows(w) ==
  IF w.mode = NFE /\ w.ne_nb = 16 THEN [w EXCEPT !.ne_nb = 8]
  ELSE IF w.mode = NFE /\ w.fe_nb = 16 THEN [w EXCEPT !.fe_nb = 8]
  ELSE w
FitWindows(w) ==
  IF w.mode = NFE
  THEN [w EXCEPT !.ne_nb = IF @ = 16 THEN 8 ELSE @,
                 !.fe_nb = IF @ = 16 THEN 8 ELSE @]
  ELSE w

\* audio_defaults, wlec_defaults of an FXS channel, and a cid never set
DefaultChan ==
  [enc_dB |-> 0, dec_dB |-> 0, VAD_cfg |-> 0, HPF_is_ON |-> 0,
   mode |-> NE, nlp |-> NlpOff, ne_nb |-> 4, fe_nb |-> 4, cid |-> 0]

-----------------------------------------------------------------------------
NoConfig ==
  /\ main = [type |-> "main", rtp_port_first |-> 0, rtp_port_last |-> 0,
             sip_tos |-> 0, rtp_tos |-> 0]
  /\ sip_account = << >> /\ dial_plan = << >>
  /\ codecs = Default
  /\ channels = [c \in Chan |-> DefaultChan]
  /\ account_from = << >> /\ dial_plan_from = << >>

Init == load = "loading" /\ file = << >> /\ NoConfig

Read(s) ==
  /\ load = "loading" /\ Len(file) < MaxSections
  /\ file' = Append(file, s)

main_add(s) ==
  /\ s.type = "main" /\ Read(s)
  /\ main' = MainOf(s)
  /\ UNCHANGED <<load, sip_account, dial_plan, codecs, channels,
                 account_from, dial_plan_from>>

account_add(s) ==
  /\ s.type = "account" /\ Read(s)
  /\ sip_account' = AppendIf(Usable(s), sip_account, AccountOf(s))
  /\ account_from' = AppendIf(Usable(s), account_from, Len(file'))
  /\ UNCHANGED <<load, main, dial_plan, codecs, channels, dial_plan_from>>

\* A section that does not resolve frees d, which was never set (542): the
\* program may go on as if nothing had been, or do anything else.
dialplan_add(s) ==
  /\ s.type = "dialplan" /\ Read(s)
  /\ IF Resolves(s)
       THEN /\ dial_plan' = Append(dial_plan, RecordOf(s))
            /\ dial_plan_from' = Append(dial_plan_from, Len(file'))
            /\ load' = load
       ELSE /\ load' \in {load, "undefined"}
            /\ UNCHANGED <<dial_plan, dial_plan_from>>
  /\ UNCHANGED <<main, sip_account, codecs, channels, account_from>>

codec_add(s) ==
  /\ s.type = "codec" /\ Read(s)
  /\ codecs' = IF s.codec = None THEN codecs
               ELSE [codecs EXCEPT ![s.codec] = Override(@, CodecOptions(s))]
  /\ UNCHANGED <<load, main, sip_account, dial_plan, channels,
                 account_from, dial_plan_from>>

\* channel_init has made a number out of range -1.
channel_add(s) ==
  /\ s.type = "channel" /\ Read(s)
  /\ channels' = IF s.channel \notin Chan THEN channels
                 ELSE [channels EXCEPT ![s.channel] =
                         FitWindows(Override(@, ChanOptions(s)))]
  /\ UNCHANGED <<load, main, sip_account, dial_plan, codecs,
                 account_from, dial_plan_from>>

\* uci_load fails: the package that is parsed nevertheless was never set.
uci_load_fails ==
  /\ load = "loading" /\ file = << >>
  /\ load' \in {"refused", "undefined"}
  /\ UNCHANGED <<file, main, sip_account, dial_plan, codecs, channels,
                 account_from, dial_plan_from>>

Acceptable ==
  /\ main.rtp_port_first # 0 /\ main.rtp_port_last # 0
  /\ main.sip_tos # 0 /\ main.rtp_tos # 0
  /\ \E a \in DOMAIN sip_account : sip_account[a].enabled

\* The end of the file.  conf_show, which runs in any case, starts a loop
\* over g_conf.codecs at an index that was never set (1210).
svd_conf_init_ends ==
  /\ load = "loading"
  /\ load' \in {IF Acceptable THEN "accepted" ELSE "refused", "undefined"}
  /\ UNCHANGED <<file, main, sip_account, dial_plan, codecs, channels,
                 account_from, dial_plan_from>>

AddSection(s) == \/ main_add(s) \/ account_add(s) \/ dialplan_add(s)
                 \/ codec_add(s) \/ channel_add(s)

Next == \/ \E s \in Section : AddSection(s)
        \/ uci_load_fails \/ svd_conf_init_ends

Spec == Init /\ [][Next]_vars

-----------------------------------------------------------------------------
(***************************************************************************)
(* Properties                                                              *)
(***************************************************************************)
\* A vector holds the sections that are Good, in the order of the file.
Follows(from, Good(_)) ==
  /\ \A k \in DOMAIN from : from[k] \in DOMAIN file /\ Good(from[k])
  /\ \A k, l \in DOMAIN from : k < l => from[k] < from[l]
  /\ \A n \in DOMAIN file : Good(n) => \E k \in DOMAIN from : from[k] = n

\* Section n of the file defines an account that works; it is a dial plan
\* entry that says all it must, for an account defined above it.
DefinesAccount(n) == Usable(file[n])
DefinesEntry(n) ==
  /\ file[n].type = "dialplan"
  /\ file[n].prefix # None /\ file[n].account # None
  /\ \E m \in DOMAIN file : /\ m < n /\ DefinesAccount(m)
                            /\ file[m].name = file[n].account

\* dialplan_add keeps an index, account_add may append more accounts later or
\* drop one: still every entry leads to the first account that has the name
\* written in its section, and no section with such an account is lost.
PlanNamesAccount ==
  /\ Follows(account_from, DefinesAccount)
  /\ Follows(dial_plan_from, DefinesEntry)
  /\ \A e \in DOMAIN dial_plan :
       LET a == account_from[dial_plan[e].account + 1]
           name == file[dial_plan_from[e]].account
       IN  /\ dial_plan[e].account + 1 \in DOMAIN account_from
           /\ file[a].name = name
           /\ \A m \in DOMAIN file :
                DefinesAccount(m) /\ file[m].name = name => a <= m

\* "give more priority to accounts defined first" (svd_cfg.c:388), whatever
\* was dropped or disabled: of two accounts without priorities of their own
\* the first in the file comes first on every channel.
DefinedFirstComesFirst ==
  \A a, b \in DOMAIN sip_account :
    /\ a < b
    /\ file[account_from[a]].outgoing_priority = << >>
    /\ file[account_from[b]].outgoing_priority = << >>
    => \A c \in Chan :
         /\ 0 < sip_account[a].outgoing_priority[c]
         /\ sip_account[a].outgoing_priority[c]
              < sip_account[b].outgoing_priority[c]

\* "the application can test the end of the list by == codec_type_NONE"
\* (svd_cfg.h:64): nothing checks it in account_add, but it is so as long as
\* a list names no codec twice.
CodecListEnds ==
  \A a \in DOMAIN sip_account :
    LET list == file[account_from[a]].codecs IN
    (\A k, l \in DOMAIN list : list[k] = list[l] /\ list[k] # None => k = l)
      => Len(sip_account[a].codecs) < CodMasSize

\* Windows of 16 ms and the NFE mode never meet in a channel, though they may
\* come from different sections.
NfeWindowsFit ==
  \A c \in Chan : channels[c].mode = NFE
                   => channels[c].ne_nb # 16 /\ channels[c].fe_nb # 16

\* The sections that say something of option o of codec c
Says(c, o) ==
  {n \in DOMAIN file : /\ file[n].type = "codec" /\ file[n].codec = c
                       /\ o = "jb_loc_adpt" \/ o \in DOMAIN file[n].options}
LastOf(S) == CHOOSE n \in S : \A m \in S : m <= n

\* What a section leaves out keeps its value, so the sections of a codec add
\* up; only local_adaptation is off again unless the last one turns it on.
SectionsAddUp ==
  \A c \in Codec, o \in CodecOption \ {"jb_scaling"} :
    codecs[c][o] =
      IF Says(c, o) = {} THEN Default[c][o]
      ELSE LET given == file[LastOf(Says(c, o))].options
           IN  IF o \in DOMAIN given THEN given[o] ELSE 0
=============================================================================
