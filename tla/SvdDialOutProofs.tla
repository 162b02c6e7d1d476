-------------------------- MODULE SvdDialOutProofs --------------------------
(***************************************************************************)
(* What a file makes of g_conf, for any sections in any order, and which   *)
(* account svd_invite_to then chooses.  FileInv ties each vector to the    *)
(* sections that its items come from; a section is added at the end of the *)
(* file, so what was said of the sections above stays true (Grown).  The   *)
(* lemmas of SvdInviteToProofs hold for the vectors that SvdConfig fills,  *)
(* because the indices and priorities in them are what svd_invite_to       *)
(* relies on.                                                              *)
(***************************************************************************)
EXTENDS SvdDialOut, FiniteSetTheorems, TLAPS

IsSeq(s) == \E S : s \in Seq(S)

LEMMA AppendOne ==
  ASSUME NEW s, IsSeq(s), NEW x
  PROVE  /\ IsSeq(Append(s, x)) /\ Len(s) \in Nat
         /\ DOMAIN s = 1 .. Len(s)
         /\ Len(Append(s, x)) = Len(s) + 1
         /\ DOMAIN Append(s, x) = 1 .. Len(s) + 1
         /\ \A n \in 1 .. Len(s) : Append(s, x)[n] = s[n]
         /\ Append(s, x)[Len(s) + 1] = x
<1>1. PICK S : s \in Seq(S)
  BY DEF IsSeq
<1>2. s \in Seq(S \union {x}) /\ Append(s, x) \in Seq(S \union {x})
  BY <1>1
<1>3. QED
  BY <1>1, <1>2 DEF IsSeq

\* A channel keeps its options, and they fit.
ChanInv ==
  /\ channels = [c \in Chan |-> channels[c]]
  /\ \A c \in Chan : /\ channels[c] = [o \in ChanOption |-> channels[c][o]]
                     /\ channels[c].mode = NFE => /\ channels[c].ne_nb # 16
                                                  /\ channels[c].fe_nb # 16

LEMMA FitsAlways ==
  ASSUME NEW w, w = [o \in ChanOption |-> w[o]]
  PROVE  /\ FitWindows(w) = [o \in ChanOption |-> FitWindows(w)[o]]
         /\ FitWindows(w).mode = NFE => /\ FitWindows(w).ne_nb # 16
                                        /\ FitWindows(w).fe_nb # 16
<1>1. CASE w.mode # NFE
  BY <1>1 DEF FitWindows
<1>2. CASE w.mode = NFE
  <2> DEFINE v == [w EXCEPT !.ne_nb = IF @ = 16 THEN 8 ELSE @]
  <2>1. FitWindows(w) = [v EXCEPT !.fe_nb = IF @ = 16 THEN 8 ELSE @]
    BY <1>2 DEF FitWindows
  <2>2. /\ v = [o \in ChanOption |-> v[o]] /\ v.ne_nb # 16
    BY DEF ChanOption
  <2> HIDE DEF v
  <2>3. /\ FitWindows(w) = [o \in ChanOption |-> FitWindows(w)[o]]
        /\ FitWindows(w).ne_nb = v.ne_nb /\ FitWindows(w).fe_nb # 16
    BY <2>1, <2>2 DEF ChanOption
  <2>4. QED
    BY <2>2, <2>3
<1>3. QED
  BY <1>1, <1>2

\* Windows of 16 ms and NFE do not meet in a channel, for any sections.
THEOREM WindowsFit == Spec => []NfeWindowsFit
<1>1. Init => ChanInv
  BY DEF Init, NoConfig, ChanInv, DefaultChan, ChanOption, NE, NFE
<1>2. ChanInv /\ [Next]_vars => ChanInv'
  <2>1. SUFFICES ASSUME ChanInv, [Next]_vars
                 PROVE  ChanInv'
    OBVIOUS
  <2>2. CASE channels' = channels
    BY <2>1, <2>2 DEF ChanInv
  <2>3. CASE \E s \in Section : channel_add(s)
    <3>1. PICK s \in Section : channel_add(s)
      BY <2>3
    <3>2. CASE s.channel \notin Chan
      BY <2>2, <3>1, <3>2 DEF channel_add
    <3>3. CASE s.channel \in Chan
      <4> DEFINE w == Override(channels[s.channel], ChanOptions(s))
      <4>1. channels' = [channels EXCEPT ![s.channel] = FitWindows(w)]
        BY <3>1, <3>3 DEF channel_add
      <4>2. channels[s.channel] = [o \in ChanOption |-> channels[s.channel][o]]
        BY <2>1, <3>3 DEF ChanInv
      <4>3. w = [o \in ChanOption |-> w[o]]
        BY <4>2 DEF Override
      <4> HIDE DEF w
      <4>4. /\ FitWindows(w) = [o \in ChanOption |-> FitWindows(w)[o]]
            /\ FitWindows(w).mode = NFE => /\ FitWindows(w).ne_nb # 16
                                           /\ FitWindows(w).fe_nb # 16
        BY <4>3, FitsAlways
      <4>5. \A c \in Chan : channels'[c] = IF c = s.channel THEN FitWindows(w)
                                           ELSE channels[c]
        BY <2>1, <3>3, <4>1 DEF ChanInv
      <4>6. channels' = [c \in Chan |-> channels'[c]]
        BY <2>1, <3>3, <4>1 DEF ChanInv
      <4>7. QED
        BY <2>1, <4>4, <4>5, <4>6 DEF ChanInv
    <3>4. QED
      BY <3>2, <3>3
  <2>4. QED
    BY <2>1, <2>2, <2>3 DEF Next, AddSection, main_add, account_add,
       dialplan_add, codec_add, uci_load_fails, svd_conf_init_ends, vars
<1>3. ChanInv => NfeWindowsFit
  BY DEF ChanInv, NfeWindowsFit
<1>4. QED
  BY <1>1, <1>2, <1>3, PTL DEF Spec

-----------------------------------------------------------------------------
\* Each account comes from a section, in the order of the file, and one whose
\* section has no priorities has its position as its priority.
AccountsInv ==
  /\ IsSeq(sip_account) /\ IsSeq(account_from)
  /\ Len(account_from) = Len(sip_account)
  /\ \A k \in 1 .. Len(sip_account) :
       /\ account_from[k] \in 1 .. Len(file)
       /\ Usable(file[account_from[k]])
       /\ sip_account[k].name = file[account_from[k]].name
       /\ file[account_from[k]].outgoing_priority = << >> =>
            sip_account[k].outgoing_priority = [c \in Chan |-> k]
  /\ \A k, l \in 1 .. Len(sip_account) : k < l => account_from[k] < account_from[l]
  /\ \A n \in 1 .. Len(file) :
       Usable(file[n]) => \E k \in 1 .. Len(sip_account) : account_from[k] = n

\* An entry leads to the first account of its name.
Leads(e) ==
  /\ dial_plan[e].account + 1 \in 1 .. Len(sip_account)
  /\ file[account_from[dial_plan[e].account + 1]].name
       = file[dial_plan_from[e]].account
  /\ \A m \in 1 .. Len(file) :
       Usable(file[m]) /\ file[m].name = file[dial_plan_from[e]].account
         => account_from[dial_plan[e].account + 1] <= m

EntriesInv ==
  /\ IsSeq(dial_plan) /\ IsSeq(dial_plan_from)
  /\ Len(dial_plan_from) = Len(dial_plan)
  /\ \A e \in 1 .. Len(dial_plan) :
       /\ dial_plan_from[e] \in 1 .. Len(file)
       /\ DefinesEntry(dial_plan_from[e])
       /\ Leads(e)
  /\ \A e, d \in 1 .. Len(dial_plan) : e < d => dial_plan_from[e] < dial_plan_from[d]
  /\ \A n \in 1 .. Len(file) :
       DefinesEntry(n) => \E e \in 1 .. Len(dial_plan) : dial_plan_from[e] = n

FileInv == IsSeq(file) /\ AccountsInv /\ EntriesInv

\* A section is read: the file above it stands.
Grown(s) ==
  /\ Len(file) \in Nat /\ Len(file') = Len(file) + 1
  /\ IsSeq(file')
  /\ \A n \in 1 .. Len(file) : file'[n] = file[n]
  /\ file'[Len(file) + 1] = s

LEMMA ReadGrows ==
  ASSUME IsSeq(file), NEW s, Read(s)
  PROVE  Grown(s)
BY AppendOne DEF Read, Grown

LEMMA OldEntries ==
  ASSUME IsSeq(file), NEW s, Grown(s)
  PROVE  /\ \A n \in 1 .. Len(file) : DefinesEntry(n)' <=> DefinesEntry(n)
         /\ \A n : n = Len(file) + 1 =>
              (DefinesEntry(n)' <=>
                /\ s.type = "dialplan" /\ s.prefix # None /\ s.account # None
                /\ \E m \in 1 .. Len(file) :
                     Usable(file[m]) /\ file[m].name = s.account)
<1>1. DOMAIN file = 1 .. Len(file) /\ DOMAIN file' = 1 .. Len(file')
  BY DEF Grown, IsSeq
<1>2. ASSUME NEW n \in 1 .. Len(file)
      PROVE  DefinesEntry(n)' <=> DefinesEntry(n)
  <2>1. file'[n] = file[n]
    BY DEF Grown
  <2>2. \A m : m \in 1 .. Len(file') /\ m < n <=> m \in 1 .. Len(file) /\ m < n
    BY DEF Grown
  <2>3. \A m \in 1 .. Len(file) : file'[m] = file[m]
    BY DEF Grown
  <2>4. QED
    BY <1>1, <2>1, <2>2, <2>3 DEF DefinesEntry, DefinesAccount
<1>3. ASSUME NEW n, n = Len(file) + 1
      PROVE  DefinesEntry(n)' <=>
               /\ s.type = "dialplan" /\ s.prefix # None /\ s.account # None
               /\ \E m \in 1 .. Len(file) :
                    Usable(file[m]) /\ file[m].name = s.account
  <2>1. \A m : m \in 1 .. Len(file') /\ m < n <=> m \in 1 .. Len(file)
    BY <1>3 DEF Grown
  <2>2. (\A m \in 1 .. Len(file) : file'[m] = file[m]) /\ file'[n] = s
    BY <1>3 DEF Grown
  <2>3. QED
    BY <1>1, <2>1, <2>2 DEF DefinesEntry, DefinesAccount
<1>4. QED
  BY <1>2, <1>3

\* A section that adds no item leaves the vectors as they are.
LEMMA OldAccounts ==
  ASSUME FileInv, NEW s, Grown(s), ~Usable(s), UNCHANGED <<sip_account, account_from>>
  PROVE  AccountsInv'
<1>1. \A k \in 1 .. Len(sip_account) :
        /\ account_from[k] \in 1 .. Len(file) /\ account_from[k] \in 1 .. Len(file')
        /\ file'[account_from[k]] = file[account_from[k]]
  BY DEF FileInv, AccountsInv, Grown
<1>2. ASSUME NEW n \in 1 .. Len(file'), Usable(file'[n])
      PROVE  n \in 1 .. Len(file) /\ file'[n] = file[n]
  BY <1>2 DEF Grown
<1>3. QED
  BY <1>1, <1>2 DEF FileInv, AccountsInv

LEMMA OldPlan ==
  ASSUME FileInv, NEW s, Grown(s), NEW new, new = Len(file) + 1, ~DefinesEntry(new)',
         UNCHANGED <<dial_plan, dial_plan_from>>,
         AccountsInv',
         Len(sip_account') \in Nat /\ Len(sip_account) <= Len(sip_account'),
         \A k \in 1 .. Len(sip_account) : account_from'[k] = account_from[k]
  PROVE  EntriesInv'
<1>1. ASSUME NEW e \in 1 .. Len(dial_plan)
      PROVE  Leads(e)'
  <2> DEFINE k == dial_plan[e].account + 1
             n == dial_plan_from[e]
  <2>1. n \in 1 .. Len(file) /\ Leads(e)
    BY DEF FileInv, EntriesInv
  <2>2. k \in 1 .. Len(sip_account) /\ k \in 1 .. Len(sip_account')
    BY <2>1 DEF Leads, FileInv, AccountsInv, IsSeq
  <2>3. account_from'[k] = account_from[k] /\ account_from[k] \in 1 .. Len(file)
    BY <2>2 DEF FileInv, AccountsInv
  <2>4. file'[n] = file[n] /\ file'[account_from[k]] = file[account_from[k]]
    BY <2>1, <2>3 DEF Grown
  <2>5. ASSUME NEW m \in 1 .. Len(file'), Usable(file'[m]),
               file'[m].name = file[n].account
        PROVE  account_from[k] <= m
    <3>1. CASE m \in 1 .. Len(file)
      BY <2>1, <2>5, <3>1 DEF Leads, Grown
    <3>2. CASE m = Len(file) + 1
      BY <2>3, <3>2 DEF Grown
    <3>3. QED
      BY <3>1, <3>2 DEF Grown
  <2>6. QED
    BY <2>1, <2>2, <2>3, <2>4, <2>5 DEF Leads
<1>2. ASSUME NEW n \in 1 .. Len(file'), DefinesEntry(n)'
      PROVE  n \in 1 .. Len(file) /\ DefinesEntry(n)
  BY <1>2, OldEntries DEF FileInv, Grown
<1>3. \A e \in 1 .. Len(dial_plan) :
        /\ dial_plan_from[e] \in 1 .. Len(file')
        /\ DefinesEntry(dial_plan_from[e])'
  <2>1. \A n \in 1 .. Len(file) : n \in 1 .. Len(file') /\ (DefinesEntry(n)' <=> DefinesEntry(n))
    BY OldEntries DEF FileInv, Grown
  <2>2. QED
    BY <2>1 DEF FileInv, EntriesInv
<1>4. QED
  BY <1>1, <1>2, <1>3 DEF FileInv, EntriesInv

LEMMA InitFile == Init => FileInv
<1>1. IsSeq(<< >>)
  BY DEF IsSeq
<1>2. QED
  BY <1>1 DEF Init, NoConfig, FileInv, AccountsInv, EntriesInv

LEMMA AccountKeepsFile ==
  ASSUME FileInv, NEW s \in Section, account_add(s)
  PROVE  FileInv'
<1>1. /\ s.type = "account" /\ Grown(s) /\ UNCHANGED <<dial_plan, dial_plan_from>>
      /\ sip_account' = AppendIf(Usable(s), sip_account, AccountOf(s))
      /\ account_from' = AppendIf(Usable(s), account_from, Len(file'))
  BY ReadGrows DEF account_add, FileInv
<1>2. \A n : n = Len(file) + 1 => ~DefinesEntry(n)'
  BY <1>1, OldEntries DEF FileInv
<1>3. CASE ~Usable(s)
  <2>1. UNCHANGED <<sip_account, account_from>>
    BY <1>1, <1>3 DEF AppendIf
  <2>2. AccountsInv'
    BY <1>1, <1>3, <2>1, OldAccounts
  <2>3. Len(sip_account) \in Nat
    BY AppendOne DEF FileInv, AccountsInv
  <2>4. EntriesInv'
    BY <1>1, <1>2, <2>1, <2>2, <2>3, OldPlan
  <2>5. QED
    BY <1>1, <2>2, <2>4 DEF FileInv, Grown
<1>4. CASE Usable(s)
  <2> DEFINE n == Len(sip_account) + 1
             f == Len(file) + 1
  <2>1. /\ sip_account' = Append(sip_account, AccountOf(s))
        /\ account_from' = Append(account_from, f)
    BY <1>1, <1>4 DEF AppendIf, Grown
  <2>2. /\ IsSeq(sip_account') /\ IsSeq(account_from')
        /\ n \in Nat /\ Len(sip_account) \in Nat /\ Len(sip_account') = n
        /\ Len(account_from') = n
        /\ \A k \in 1 .. Len(sip_account) : sip_account'[k] = sip_account[k]
                                          /\ account_from'[k] = account_from[k]
        /\ sip_account'[n] = AccountOf(s) /\ account_from'[n] = f
    BY <2>1, AppendOne DEF FileInv, AccountsInv
  <2>3. /\ Len(file) \in Nat /\ Len(file') = f /\ file'[f] = s
        /\ \A m \in 1 .. Len(file) : file'[m] = file[m]
    BY <1>1 DEF Grown
  <2>4. /\ AccountOf(s).name = s.name
        /\ s.outgoing_priority = << >> =>
             AccountOf(s).outgoing_priority = [c \in Chan |-> n]
    BY DEF AccountOf, PerChan, DefaultPriority
  <2> HIDE DEF n, f
  <2>5. \A k \in 1 .. n : k \in 1 .. Len(sip_account) \/ k = n
    BY <2>2 DEF n
  <2>6. n \notin 1 .. Len(sip_account) /\ f \notin 1 .. Len(file)
          /\ f \in 1 .. f /\ n \in 1 .. n
    BY <2>2, <2>3 DEF n, f
  <2>7. ASSUME NEW k \in 1 .. Len(sip_account)
        PROVE  /\ account_from'[k] \in 1 .. Len(file)
               /\ Usable(file'[account_from'[k]])
               /\ sip_account'[k].name = file'[account_from'[k]].name
               /\ file'[account_from'[k]].outgoing_priority = << >> =>
                    sip_account'[k].outgoing_priority = [c \in Chan |-> k]
    <3>1. /\ account_from[k] \in 1 .. Len(file)
          /\ Usable(file[account_from[k]])
          /\ sip_account[k].name = file[account_from[k]].name
          /\ file[account_from[k]].outgoing_priority = << >> =>
               sip_account[k].outgoing_priority = [c \in Chan |-> k]
      BY DEF FileInv, AccountsInv
    <3>2. account_from'[k] = account_from[k] /\ sip_account'[k] = sip_account[k]
      BY <2>2
    <3>3. file'[account_from[k]] = file[account_from[k]]
      BY <2>3, <3>1
    <3>4. QED
      BY <3>1, <3>2, <3>3
  <2>8. \A m \in 1 .. Len(file) : m \in 1 .. f /\ m < f
    BY <2>3 DEF f
  <2>9. \A k \in 1 .. n :
          /\ account_from'[k] \in 1 .. f
          /\ Usable(file'[account_from'[k]])
          /\ sip_account'[k].name = file'[account_from'[k]].name
          /\ file'[account_from'[k]].outgoing_priority = << >> =>
               sip_account'[k].outgoing_priority = [c \in Chan |-> k]
    BY <1>4, <2>2, <2>3, <2>4, <2>5, <2>6, <2>7, <2>8
  <2>10. ASSUME NEW k \in 1 .. n, NEW l \in 1 .. n, k < l
         PROVE  account_from'[k] < account_from'[l]
    <3>1. k \in 1 .. Len(sip_account)
      BY <2>2, <2>10 DEF n
    <3>2. CASE l = n
      BY <2>2, <2>7, <2>8, <3>1, <3>2
    <3>3. CASE l \in 1 .. Len(sip_account)
      BY <2>2, <2>10, <3>1, <3>3 DEF FileInv, AccountsInv
    <3>4. QED
      BY <2>5, <3>2, <3>3
  <2>11. ASSUME NEW m \in 1 .. f, Usable(file'[m])
         PROVE  \E k \in 1 .. n : account_from'[k] = m
    <3>1. CASE m = f
      BY <2>2, <2>6, <3>1
    <3>2. CASE m \in 1 .. Len(file)
      <4>1. PICK k \in 1 .. Len(sip_account) : account_from[k] = m
        BY <2>3, <2>11, <3>2 DEF FileInv, AccountsInv
      <4>2. k \in 1 .. n
        BY <2>2 DEF n
      <4>3. QED
        BY <2>2, <4>1, <4>2
    <3>3. QED
      BY <2>3, <3>1, <3>2 DEF f
  <2>12. AccountsInv'
    BY <2>2, <2>3, <2>9, <2>10, <2>11 DEF AccountsInv
  <2>13. Len(sip_account) <= Len(sip_account')
    BY <2>2 DEF n
  <2>14. EntriesInv'
    BY <1>1, <1>2, <2>2, <2>12, <2>13, OldPlan
  <2>15. QED
    BY <1>1, <2>12, <2>14 DEF FileInv, Grown
<1>5. QED
  BY <1>3, <1>4

\* AccountIndex finds the first account of a name that some account has.
LEMMA FirstOfName ==
  ASSUME IsSeq(sip_account), NEW name, Named(name) # {}
  PROVE  /\ AccountIndex(name) \in Int
         /\ AccountIndex(name) + 1 \in Named(name)
         /\ \A b \in Named(name) : AccountIndex(name) + 1 <= b
<1>1. Named(name) \subseteq Nat
  BY AppendOne DEF Named
<1> DEFINE R == OpToRel(<, Nat)
<1>2. IsWellFoundedOn(R, Nat)
  BY NatLessThanWellFounded
<1>3. \A x, y \in Nat : <<y, x>> \in R <=> y < x
  BY DEF OpToRel
<1> HIDE DEF R
<1>4. PICK a \in Named(name) : \A b \in Named(name) : <<b, a>> \notin R
  BY <1>1, <1>2, WFMin, Zenon
<1>5. ASSUME NEW b \in Named(name)
      PROVE  a <= b
  <2>1. a \in Nat /\ b \in Nat /\ <<b, a>> \notin R
    BY <1>1, <1>4
  <2>2. ~(b < a)
    BY <1>3, <2>1
  <2>3. QED
    BY <2>1, <2>2
<1> DEFINE first == CHOOSE a1 \in Named(name) : \A b \in Named(name) : a1 <= b
<1>6. first \in Named(name) /\ \A b \in Named(name) : first <= b
  BY <1>4, <1>5
<1>7. first \in Nat /\ AccountIndex(name) = first - 1
  BY <1>1, <1>6 DEF AccountIndex
<1> HIDE DEF first
<1>8. AccountIndex(name) + 1 = first /\ AccountIndex(name) \in Int
  BY <1>7
<1>9. QED
  BY <1>6, <1>8

LEMMA EntryKeepsFile ==
  ASSUME FileInv, NEW s \in Section, dialplan_add(s)
  PROVE  FileInv'
<1>1. /\ s.type = "dialplan" /\ Grown(s) /\ UNCHANGED <<sip_account, account_from>>
      /\ ~Usable(s) /\ Len(sip_account) \in Nat
  BY ReadGrows, AppendOne DEF dialplan_add, FileInv, AccountsInv, Usable
<1>2. AccountsInv'
  BY <1>1, OldAccounts
<1>3. Resolves(s) <=>
        /\ s.type = "dialplan" /\ s.prefix # None /\ s.account # None
        /\ \E m \in 1 .. Len(file) : Usable(file[m]) /\ file[m].name = s.account
  <2>1. DOMAIN sip_account = 1 .. Len(sip_account)
    BY AppendOne DEF FileInv, AccountsInv
  <2>2. ASSUME NEW k \in Named(s.account)
        PROVE  \E m \in 1 .. Len(file) : Usable(file[m]) /\ file[m].name = s.account
    BY <2>1, <2>2 DEF Named, FileInv, AccountsInv
  <2>3. ASSUME NEW m \in 1 .. Len(file), Usable(file[m]), file[m].name = s.account
        PROVE  Named(s.account) # {}
    <3>1. PICK k \in 1 .. Len(sip_account) : account_from[k] = m
      BY <2>3 DEF FileInv, AccountsInv
    <3>2. sip_account[k].name = s.account
      BY <2>3, <3>1 DEF FileInv, AccountsInv
    <3>3. QED
      BY <2>1, <3>2 DEF Named
  <2>4. QED
    BY <1>1, <2>2, <2>3 DEF Resolves
<1>4. CASE ~Resolves(s)
  <2>1. UNCHANGED <<dial_plan, dial_plan_from>>
    BY <1>4 DEF dialplan_add
  <2>2. \A n : n = Len(file) + 1 => ~DefinesEntry(n)'
    BY <1>1, <1>3, <1>4, OldEntries DEF FileInv
  <2>3. EntriesInv'
    BY <1>1, <1>2, <2>1, <2>2, OldPlan
  <2>4. QED
    BY <1>1, <1>2, <2>3 DEF FileInv, Grown
<1>5. CASE Resolves(s)
  <2> DEFINE n == Len(dial_plan) + 1
             f == Len(file) + 1
  <2>1. /\ dial_plan' = Append(dial_plan, RecordOf(s))
        /\ dial_plan_from' = Append(dial_plan_from, f)
    BY <1>1, <1>5 DEF dialplan_add, Grown
  <2>2. /\ IsSeq(dial_plan') /\ IsSeq(dial_plan_from')
        /\ n \in Nat /\ Len(dial_plan) \in Nat /\ Len(dial_plan') = n
        /\ Len(dial_plan_from') = n
        /\ \A e \in 1 .. Len(dial_plan) : dial_plan'[e] = dial_plan[e]
                                        /\ dial_plan_from'[e] = dial_plan_from[e]
        /\ dial_plan'[n] = RecordOf(s) /\ dial_plan_from'[n] = f
    BY <2>1, AppendOne DEF FileInv, EntriesInv
  <2>3. /\ Len(file) \in Nat /\ Len(file') = f /\ file'[f] = s
        /\ \A m \in 1 .. Len(file) : file'[m] = file[m]
    BY <1>1 DEF Grown
  <2>4. ASSUME NEW e, e = f
        PROVE  DefinesEntry(e)'
    BY <1>1, <1>3, <1>5, <2>4, OldEntries DEF FileInv
  <2>5. ASSUME NEW e \in 1 .. Len(file)
        PROVE  DefinesEntry(e)' <=> DefinesEntry(e)
    BY <1>1, OldEntries DEF FileInv
  <2> HIDE DEF n, f
  <2>6. /\ \A e \in 1 .. n : e \in 1 .. Len(dial_plan) \/ e = n
        /\ \A e \in 1 .. Len(dial_plan) : e \in 1 .. n
        /\ n \notin 1 .. Len(dial_plan) /\ f \notin 1 .. Len(file)
        /\ f \in 1 .. f /\ n \in 1 .. n
        /\ \A m \in 1 .. Len(file) : m \in 1 .. f /\ m < f
        /\ \A m \in 1 .. f : m \in 1 .. Len(file) \/ m = f
    BY <2>2, <2>3 DEF n, f
  <2>7. ASSUME NEW e \in 1 .. Len(dial_plan)
        PROVE  /\ dial_plan_from'[e] \in 1 .. f
               /\ DefinesEntry(dial_plan_from[e])'
               /\ Leads(e)'
    <3> DEFINE k == dial_plan[e].account + 1
    <3>0. PICK d : d = dial_plan_from[e]
      OBVIOUS
    <3>1. d \in 1 .. Len(file) /\ DefinesEntry(d) /\ Leads(e)
      BY <3>0 DEF FileInv, EntriesInv
    <3>2. k \in 1 .. Len(sip_account) /\ account_from[k] \in 1 .. Len(file)
      BY <3>1 DEF Leads, FileInv, AccountsInv
    <3>3. dial_plan'[e] = dial_plan[e] /\ dial_plan_from'[e] = d
      BY <2>2, <3>0
    <3>4. file'[d] = file[d] /\ file'[account_from[k]] = file[account_from[k]]
      BY <2>3, <3>1, <3>2
    <3>5. ASSUME NEW m \in 1 .. f, Usable(file'[m]), file'[m].name = file[d].account
          PROVE  account_from[k] <= m
      BY <1>1, <2>3, <2>6, <3>0, <3>1, <3>5 DEF Leads
    <3>6. Leads(e)'
      BY <1>1, <2>3, <3>0, <3>1, <3>2, <3>3, <3>4, <3>5 DEF Leads
    <3>7. DefinesEntry(d)'
      BY <2>5, <3>1
    <3>8. QED
      BY <2>6, <3>1, <3>3, <3>6, <3>7
  <2>8. ASSUME NEW e, e = n
        PROVE  Leads(e)'
    <3> DEFINE k == AccountIndex(s.account) + 1
    <3>1. /\ k \in Named(s.account) /\ \A b \in Named(s.account) : k <= b
      BY <1>5, FirstOfName DEF FileInv, AccountsInv, Resolves
    <3>2. DOMAIN sip_account = 1 .. Len(sip_account)
      BY AppendOne DEF FileInv, AccountsInv
    <3>3. dial_plan'[e].account + 1 = k /\ file'[dial_plan_from'[e]] = s
      BY <2>2, <2>3, <2>8 DEF RecordOf
    <3> HIDE DEF k
    <3>4. k \in 1 .. Len(sip_account) /\ sip_account[k].name = s.account
      BY <3>1, <3>2 DEF Named
    <3>5. account_from[k] \in 1 .. Len(file) /\ file'[account_from[k]].name = s.account
      BY <2>3, <3>4 DEF FileInv, AccountsInv
    <3>6. ASSUME NEW m \in 1 .. f, Usable(file'[m]), file'[m].name = s.account
          PROVE  account_from[k] <= m
      <4>1. m \in 1 .. Len(file) /\ file'[m] = file[m]
        BY <1>1, <2>3, <2>6, <3>6
      <4>2. PICK l \in 1 .. Len(sip_account) : account_from[l] = m
        BY <3>6, <4>1 DEF FileInv, AccountsInv
      <4>3. l \in Named(s.account)
        BY <3>2, <3>6, <4>1, <4>2 DEF Named, FileInv, AccountsInv
      <4>4. k <= l
        BY <3>1, <4>3
      <4>5. k = l \/ k < l
        BY <3>4, <4>4
      <4>6. k < l => account_from[k] < account_from[l]
        BY <3>4 DEF FileInv, AccountsInv
      <4>7. QED
        BY <3>5, <4>2, <4>5, <4>6
    <3>7. QED
      BY <1>1, <2>3, <3>3, <3>4, <3>5, <3>6 DEF Leads
  <2>9. \A e \in 1 .. n : /\ dial_plan_from'[e] \in 1 .. f
                          /\ DefinesEntry(dial_plan_from[e])'
                          /\ Leads(e)'
    BY <2>2, <2>4, <2>6, <2>7, <2>8
  <2>10. ASSUME NEW e \in 1 .. n, NEW d \in 1 .. n, e < d
         PROVE  dial_plan_from'[e] < dial_plan_from'[d]
    <3>1. e \in 1 .. Len(dial_plan)
      BY <2>2, <2>10 DEF n
    <3>2. CASE d = n
      BY <2>2, <2>6, <3>1, <3>2 DEF FileInv, EntriesInv
    <3>3. CASE d \in 1 .. Len(dial_plan)
      BY <2>2, <2>10, <3>1, <3>3 DEF FileInv, EntriesInv
    <3>4. QED
      BY <2>6, <3>2, <3>3
  <2>11. ASSUME NEW m \in 1 .. f, DefinesEntry(m)'
         PROVE  \E e \in 1 .. n : dial_plan_from'[e] = m
    <3>1. CASE m = f
      BY <2>2, <2>6, <3>1
    <3>2. CASE m \in 1 .. Len(file)
      <4>1. PICK e \in 1 .. Len(dial_plan) : dial_plan_from[e] = m
        BY <2>5, <2>11, <3>2 DEF FileInv, EntriesInv
      <4>2. QED
        BY <2>2, <2>6, <4>1
    <3>3. QED
      BY <2>6, <3>1, <3>2
  <2>12. EntriesInv'
    BY <2>2, <2>3, <2>9, <2>10, <2>11 DEF EntriesInv
  <2>13. QED
    BY <1>1, <1>2, <2>12 DEF FileInv, Grown
<1>6. QED
  BY <1>4, <1>5

\* The other sections, which add neither an account nor an entry
LEMMA OtherKeepsFile ==
  ASSUME FileInv, NEW s \in Section, main_add(s) \/ codec_add(s) \/ channel_add(s)
  PROVE  FileInv'
<1>1. /\ s.type \notin {"account", "dialplan"} /\ Grown(s)
      /\ UNCHANGED <<sip_account, dial_plan, account_from, dial_plan_from>>
  BY ReadGrows DEF main_add, codec_add, channel_add, FileInv
<1>2. ~Usable(s) /\ Len(sip_account) \in Nat
  BY <1>1, AppendOne DEF Usable, FileInv, AccountsInv
<1>3. AccountsInv'
  BY <1>1, <1>2, OldAccounts
<1>4. \A n : n = Len(file) + 1 => ~DefinesEntry(n)'
  BY <1>1, OldEntries DEF FileInv
<1>5. EntriesInv'
  BY <1>1, <1>2, <1>3, <1>4, OldPlan
<1>6. QED
  BY <1>1, <1>3, <1>5 DEF FileInv, Grown

LEMMA FileInvariant == Spec => []FileInv
<1>1. FileInv /\ [Next]_vars => FileInv'
  <2>1. SUFFICES ASSUME FileInv, [Next]_vars
                 PROVE  FileInv'
    OBVIOUS
  <2>2. CASE \E s \in Section : AddSection(s)
    BY <2>1, <2>2, AccountKeepsFile, EntryKeepsFile, OtherKeepsFile DEF AddSection
  <2>3. CASE uci_load_fails \/ svd_conf_init_ends \/ UNCHANGED vars
    <3>1. UNCHANGED <<file, sip_account, dial_plan, account_from, dial_plan_from>>
      BY <2>3 DEF uci_load_fails, svd_conf_init_ends, vars
    <3>2. \A n, e : (DefinesEntry(n)' <=> DefinesEntry(n)) /\ (Leads(e)' <=> Leads(e))
      BY <3>1 DEF DefinesEntry, DefinesAccount, Leads
    <3>3. QED
      BY <2>1, <3>1, <3>2 DEF FileInv, AccountsInv, EntriesInv
  <2>4. QED
    BY <2>1, <2>2, <2>3 DEF Next
<1>2. QED
  BY <1>1, InitFile, PTL DEF Spec

-----------------------------------------------------------------------------
\* Whatever accounts are dropped above or below it, an entry of the plan leads
\* to the first account of its name, and none with such an account is lost.
THEOREM PlanLeadsToName == Spec => []PlanNamesAccount
<1>1. FileInv => PlanNamesAccount
  <2>1. SUFFICES ASSUME FileInv
                 PROVE  PlanNamesAccount
    OBVIOUS
  <2>2. /\ DOMAIN file = 1 .. Len(file)
        /\ DOMAIN account_from = 1 .. Len(sip_account)
        /\ DOMAIN dial_plan = 1 .. Len(dial_plan)
        /\ DOMAIN dial_plan_from = 1 .. Len(dial_plan)
    BY <2>1, AppendOne DEF FileInv, AccountsInv, EntriesInv
  <2>3. Follows(account_from, DefinesAccount)
    BY <2>1, <2>2 DEF Follows, DefinesAccount, FileInv, AccountsInv
  <2>4. Follows(dial_plan_from, DefinesEntry)
    BY <2>1, <2>2 DEF Follows, FileInv, EntriesInv
  <2>5. ASSUME NEW e \in DOMAIN dial_plan
        PROVE  Leads(e)
    BY <2>1, <2>2 DEF FileInv, EntriesInv
  <2>6. QED
    BY <2>2, <2>3, <2>4, <2>5 DEF PlanNamesAccount, Leads, DefinesAccount
<1>2. QED
  BY <1>1, FileInvariant, PTL

\* Of two accounts without priorities of their own the one defined first comes
\* first, on every channel.
THEOREM FirstComesFirst == Spec => []DefinedFirstComesFirst
<1>1. FileInv => DefinedFirstComesFirst
  <2>1. SUFFICES ASSUME FileInv
                 PROVE  DefinedFirstComesFirst
    OBVIOUS
  <2>2. DOMAIN sip_account = 1 .. Len(sip_account) /\ Len(sip_account) \in Nat
    BY <2>1, AppendOne DEF FileInv, AccountsInv
  <2>3. ASSUME NEW a \in DOMAIN sip_account,
               file[account_from[a]].outgoing_priority = << >>
        PROVE  \A c \in Chan : sip_account[a].outgoing_priority[c] = a
    <3>1. a \in 1 .. Len(sip_account)
      BY <2>2
    <3>2. sip_account[a].outgoing_priority = [c \in Chan |-> a]
      BY <2>1, <2>3, <3>1 DEF FileInv, AccountsInv
    <3>3. QED
      BY <3>2
  <2>4. \A a \in DOMAIN sip_account : a \in Nat /\ 0 < a
    BY <2>2
  <2>5. QED
    BY <2>3, <2>4 DEF DefinedFirstComesFirst
<1>2. QED
  BY <1>1, FileInvariant, PTL

-----------------------------------------------------------------------------
\* Some section says it last.
HasLast(S) == \E n \in S : \A m \in S : m <= n

\* What section s makes of option o
Given(s, o) == IF o \in DOMAIN s.options THEN s.options[o] ELSE 0

CodecsInv ==
  /\ IsSeq(file)
  /\ codecs = [c \in Codec |-> codecs[c]]
  /\ \A c \in Codec : codecs[c] = [o \in CodecOption |-> codecs[c][o]]
  /\ \A c \in Codec, o \in CodecOption \ {"jb_scaling"} :
       /\ Says(c, o) # {} => HasLast(Says(c, o))
       /\ codecs[c][o] = IF Says(c, o) = {} THEN Default[c][o]
                         ELSE Given(file[LastOf(Says(c, o))], o)

LEMMA InitCodecs == Init => CodecsInv
<1>1. SUFFICES ASSUME Init
               PROVE  CodecsInv
  OBVIOUS
<1>2. IsSeq(<< >>)
  BY DEF IsSeq
<1>3. \A c, o : Says(c, o) = {}
  BY <1>1 DEF Init, Says
<1>4. QED
  BY <1>1, <1>2, <1>3, ConfigAssumption DEF Init, NoConfig, CodecsInv

\* A section that says nothing of an option leaves its sections and its value.
LEMMA SaysNothing ==
  ASSUME IsSeq(file), NEW s, Grown(s), NEW c, NEW o,
         ~(/\ s.type = "codec" /\ s.codec = c
           /\ o = "jb_loc_adpt" \/ o \in DOMAIN s.options)
  PROVE  Says(c, o)' = Says(c, o)
<1>1. DOMAIN file = 1 .. Len(file) /\ DOMAIN file' = 1 .. Len(file')
  BY AppendOne DEF Grown, IsSeq
<1>2. \A n : n \in 1 .. Len(file') <=> n \in 1 .. Len(file) \/ n = Len(file) + 1
  BY DEF Grown
<1>3. Len(file) + 1 \notin Says(c, o)'
  <2>1. file'[Len(file) + 1] = s
    BY DEF Grown
  <2>2. ASSUME NEW n, n \in Says(c, o)'
        PROVE  /\ file'[n].type = "codec" /\ file'[n].codec = c
               /\ o = "jb_loc_adpt" \/ o \in DOMAIN file'[n].options
    BY <2>2 DEF Says
  <2>3. QED
    BY <2>1, <2>2
<1>4. QED
  BY <1>1, <1>2, <1>3 DEF Grown, Says

\* One that does becomes the last of them.
LEMMA SaysLast ==
  ASSUME IsSeq(file), NEW s, Grown(s), NEW c, NEW o,
         s.type = "codec" /\ s.codec = c,
         o = "jb_loc_adpt" \/ o \in DOMAIN s.options
  PROVE  /\ Says(c, o)' # {} /\ HasLast(Says(c, o))'
         /\ LastOf(Says(c, o)') = Len(file) + 1
<1> DEFINE f == Len(file) + 1
<1>1. DOMAIN file = 1 .. Len(file) /\ DOMAIN file' = 1 .. Len(file')
  BY AppendOne DEF Grown, IsSeq
<1>2. f \in Says(c, o)'
  BY <1>1 DEF Grown, Says
<1>3. \A m \in Says(c, o)' : m \in 1 .. f
  BY <1>1 DEF Grown, Says
<1>4. f \in Nat /\ \A m \in 1 .. f : m <= f /\ (f <= m => m = f)
  BY DEF Grown
<1> HIDE DEF f
<1>5. HasLast(Says(c, o))'
  BY <1>2, <1>3, <1>4 DEF HasLast
<1>6. LastOf(Says(c, o)') = f
  <2>1. \E n \in Says(c, o)' : \A m \in Says(c, o)' : m <= n
    BY <1>2, <1>3, <1>4
  <2>2. /\ LastOf(Says(c, o)') \in Says(c, o)'
        /\ \A m \in Says(c, o)' : m <= LastOf(Says(c, o)')
    BY <2>1 DEF LastOf
  <2>3. QED
    BY <1>2, <1>3, <1>4, <2>2
<1>7. QED
  BY <1>2, <1>5, <1>6 DEF f

\* What an option becomes in codec_add
LEMMA OptionAdded ==
  ASSUME NEW s, NEW old, old = [o \in CodecOption |-> old[o]],
         NEW o \in CodecOption \ {"jb_scaling"}
  PROVE  Override(old, CodecOptions(s))[o]
           = IF o = "jb_loc_adpt" \/ o \in DOMAIN s.options THEN Given(s, o)
             ELSE old[o]
<1>1. DOMAIN old = CodecOption
  OBVIOUS
<1>2. o \in DOMAIN CodecOptions(s) <=> o = "jb_loc_adpt" \/ o \in DOMAIN s.options
  BY DEF CodecOptions
<1>3. o \in DOMAIN CodecOptions(s) => CodecOptions(s)[o] = Given(s, o)
  BY DEF CodecOptions, Given
<1>4. Override(old, CodecOptions(s))[o]
        = IF o \in DOMAIN CodecOptions(s) THEN CodecOptions(s)[o] ELSE old[o]
  BY <1>1 DEF Override
<1>5. QED
  BY <1>2, <1>3, <1>4

LEMMA SectionKeepsCodecs ==
  ASSUME CodecsInv, NEW s \in Section, AddSection(s)
  PROVE  CodecsInv'
<1>1. IsSeq(file) /\ Grown(s) /\ IsSeq(file')
  BY ReadGrows DEF CodecsInv, AddSection, main_add, account_add, dialplan_add,
     codec_add, channel_add, Grown
<1>2. \/ s.type # "codec" /\ codecs' = codecs
      \/ s.type = "codec" /\ codec_add(s)
  BY DEF AddSection, main_add, account_add, dialplan_add, codec_add, channel_add
<1>3. s.type = "codec" => s.codec \in Codec \union {None}
  BY ConfigAssumption DEF IsCodecSection, IsChanSection, MainSection,
     AccountSection, DialplanSection
<1>4. /\ codecs' = [c \in Codec |-> codecs'[c]]
      /\ \A c \in Codec :
           codecs'[c] = IF s.type = "codec" /\ s.codec = c
                        THEN Override(codecs[c], CodecOptions(s)) ELSE codecs[c]
  <2>1. CASE s.type # "codec"
    BY <1>2, <2>1 DEF CodecsInv
  <2>2. CASE s.type = "codec" /\ s.codec = None
    BY <1>2, <2>2, ConfigAssumption DEF CodecsInv, codec_add
  <2>3. CASE s.type = "codec" /\ s.codec \in Codec
    <3>1. codecs' = [codecs EXCEPT ![s.codec] =
                       Override(codecs[s.codec], CodecOptions(s))]
      BY <1>2, <2>3, ConfigAssumption DEF codec_add
    <3>2. QED
      BY <2>3, <3>1 DEF CodecsInv
  <2>4. QED
    BY <1>3, <2>1, <2>2, <2>3
<1>5. \A c \in Codec : codecs'[c] = [o \in CodecOption |-> codecs'[c][o]]
  BY <1>4 DEF CodecsInv, Override
<1>6. ASSUME NEW c \in Codec, NEW o \in CodecOption \ {"jb_scaling"}
      PROVE  /\ Says(c, o)' # {} => HasLast(Says(c, o))'
             /\ codecs'[c][o] = IF Says(c, o)' = {} THEN Default[c][o]
                                ELSE Given(file'[LastOf(Says(c, o)')], o)
  <2>1. CASE /\ s.type = "codec" /\ s.codec = c
             /\ o = "jb_loc_adpt" \/ o \in DOMAIN s.options
    <3>1. codecs'[c][o] = Given(s, o)
      BY <1>4, <2>1, OptionAdded DEF CodecsInv
    <3>2. /\ Says(c, o)' # {} /\ HasLast(Says(c, o))'
          /\ LastOf(Says(c, o)') = Len(file) + 1
      BY <1>1, <2>1, SaysLast
    <3>3. file'[LastOf(Says(c, o)')] = s
      BY <1>1, <3>2 DEF Grown
    <3>4. QED
      BY <3>1, <3>2, <3>3
  <2>2. CASE ~(/\ s.type = "codec" /\ s.codec = c
               /\ o = "jb_loc_adpt" \/ o \in DOMAIN s.options)
    <3>1. codecs'[c][o] = codecs[c][o]
      BY <1>4, <2>2, OptionAdded DEF CodecsInv
    <3>2. Says(c, o)' = Says(c, o)
      BY <1>1, <2>2, SaysNothing
    <3>3. ASSUME Says(c, o) # {}
          PROVE  file'[LastOf(Says(c, o))] = file[LastOf(Says(c, o))]
      <4>1. \E n \in Says(c, o) : \A m \in Says(c, o) : m <= n
        BY <3>3 DEF CodecsInv, HasLast
      <4>2. LastOf(Says(c, o)) \in Says(c, o)
        BY <4>1 DEF LastOf
      <4>3. LastOf(Says(c, o)) \in 1 .. Len(file)
        BY <1>1, <4>2, AppendOne DEF Says
      <4>4. QED
        BY <1>1, <4>3 DEF Grown
    <3>4. HasLast(Says(c, o))' <=> HasLast(Says(c, o))
      BY <3>2 DEF HasLast
    <3>5. QED
      BY <3>1, <3>2, <3>3, <3>4 DEF CodecsInv
  <2>3. QED
    BY <2>1, <2>2
<1>7. QED
  BY <1>1, <1>4, <1>5, <1>6 DEF CodecsInv, LastOf

\* The sections of a codec add up, for any options in any number of sections.
THEOREM CodecSectionsAddUp == Spec => []SectionsAddUp
<1>1. CodecsInv /\ [Next]_vars => CodecsInv'
  <2>1. SUFFICES ASSUME CodecsInv, [Next]_vars
                 PROVE  CodecsInv'
    OBVIOUS
  <2>2. CASE \E s \in Section : AddSection(s)
    BY <2>1, <2>2, SectionKeepsCodecs
  <2>3. CASE uci_load_fails \/ svd_conf_init_ends \/ UNCHANGED vars
    <3>1. UNCHANGED <<file, codecs>>
      BY <2>3 DEF uci_load_fails, svd_conf_init_ends, vars
    <3>2. QED
      BY <2>1, <3>1 DEF CodecsInv, Says
  <2>4. QED
    BY <2>1, <2>2, <2>3 DEF Next
<1>2. CodecsInv => SectionsAddUp
  BY DEF CodecsInv, Given, SectionsAddUp
<1>3. QED
  BY <1>1, <1>2, InitCodecs, PTL DEF Spec
-----------------------------------------------------------------------------
(* The codecs of an account.                                               *)

LEMMA CodecsCount == IsFiniteSet(Codec) /\ Cardinality(Codec) \in Nat
                       /\ Cardinality(Codec) <= Len(CodecOrder) + 1
<1> DEFINE n == Len(CodecOrder) + 1
           f == [k \in 1 .. n |-> IF k = n THEN TelephoneEvent ELSE CodecOrder[k]]
<1>1. n \in Nat /\ DOMAIN CodecOrder = 1 .. n - 1 /\ n - 1 \in Nat
  BY ConfigAssumption
<1> HIDE DEF n
<1>2. f \in [1 .. n -> Codec]
  <2>1. ASSUME NEW k \in 1 .. n
        PROVE  f[k] \in Codec
    <3>1. CASE k = n
      BY <3>1 DEF Codec
    <3>2. CASE k # n
      <4>1. k \in DOMAIN CodecOrder
        BY <1>1, <3>2
      <4>2. QED
        BY <3>2, <4>1 DEF Codec
    <3>3. QED
      BY <3>1, <3>2
  <2>2. QED
    BY <2>1
<1>3. ASSUME NEW c \in Codec
      PROVE  \E k \in 1 .. n : f[k] = c
  <2>1. CASE c = TelephoneEvent
    BY <1>1, <2>1
  <2>2. CASE c # TelephoneEvent
    <3>1. PICK k \in DOMAIN CodecOrder : CodecOrder[k] = c
      BY <2>2 DEF Codec
    <3>2. k \in 1 .. n /\ k # n
      BY <1>1, <3>1
    <3>3. QED
      BY <3>1, <3>2
  <2>3. QED
    BY <2>1, <2>2
<1> HIDE DEF f
<1>4. f \in Surjection(1 .. n, Codec)
  BY <1>2, <1>3 DEF Surjection
<1>5. IsFiniteSet(1 .. n) /\ Cardinality(1 .. n) = n
  BY <1>1, FS_Interval
<1>6. IsFiniteSet(Codec) /\ Cardinality(Codec) <= n
  BY <1>4, <1>5, FS_Surjection
<1>7. QED
  BY <1>6, FS_CardinalityType DEF n

\* Of a list without repetition no more is known than there are codecs.
LEMMA KnownAreCodecs ==
  ASSUME NEW list \in Seq(Codec \union {None}),
         \A k, l \in DOMAIN list : list[k] = list[l] /\ list[k] # None => k = l
  PROVE  /\ IsSeq(Known(list)) /\ Len(Known(list)) \in Nat
         /\ Len(Known(list)) <= Cardinality(Codec)
<1> DEFINE kept == {k \in DOMAIN list : list[k] # None}
           place == [k \in kept |-> list[k]]
           c == Cardinality(kept)
<1>1. place \in Injection(kept, Codec)
  <2>1. \A k \in DOMAIN list : list[k] \in Codec \union {None}
    OBVIOUS
  <2>2. place \in [kept -> Codec]
    BY <2>1
  <2>3. \A k, l \in kept : place[k] = place[l] => k = l
    OBVIOUS
  <2>4. QED
    BY <2>2, <2>3 DEF Injection, IsInjective
<1>2. IsFiniteSet(kept) /\ c <= Cardinality(Codec)
  BY <1>1, CodecsCount, FS_Injection
<1>3. c \in Nat
  BY <1>2, FS_CardinalityType
<1>4. /\ DOMAIN Known(list) = 1 .. c
      /\ Known(list) = [n \in 1 .. c |-> Known(list)[n]]
  BY DEF Known
<1> HIDE DEF c
<1>5. Known(list) \in Seq({Known(list)[n] : n \in 1 .. c})
  BY <1>3, <1>4
<1>6. Len(Known(list)) = c
  BY <1>3, <1>4, <1>5
<1>7. QED
  BY <1>2, <1>3, <1>5, <1>6 DEF IsSeq

LEMMA AccountListEnds ==
  ASSUME NEW s \in AccountSection,
         \A k, l \in DOMAIN s.codecs :
           s.codecs[k] = s.codecs[l] /\ s.codecs[k] # None => k = l
  PROVE  Len(AccountCodecs(s)) < CodMasSize
<1> DEFINE listed == IF s.codecs = << >> THEN CodecOrder ELSE Known(s.codecs)
<1>1. /\ Len(CodecOrder) \in Nat /\ IsSeq(CodecOrder) /\ CodMasSize \in Nat
      /\ Len(CodecOrder) + 2 < CodMasSize
  BY ConfigAssumption DEF IsSeq
<1>2. IsSeq(listed) /\ Len(listed) \in Nat /\ Len(listed) <= Len(CodecOrder) + 1
  <2>1. CASE s.codecs = << >>
    BY <1>1, <2>1
  <2>2. CASE s.codecs # << >>
    <3>1. s.codecs \in Seq(Codec \union {None})
      BY DEF AccountSection
    <3>2. /\ IsSeq(Known(s.codecs)) /\ Len(Known(s.codecs)) \in Nat
          /\ Len(Known(s.codecs)) <= Cardinality(Codec)
      BY <3>1, KnownAreCodecs
    <3>3. QED
      BY <1>1, <2>2, <3>2, CodecsCount
  <2>3. QED
    BY <2>1, <2>2
<1>3. \/ AccountCodecs(s) = listed
      \/ AccountCodecs(s) = Append(listed, TelephoneEvent)
  BY DEF AccountCodecs, AppendIf
<1> HIDE DEF listed
<1>4. Len(AccountCodecs(s)) \in Nat /\ Len(AccountCodecs(s)) <= Len(listed) + 1
  BY <1>2, <1>3, AppendOne
<1>5. QED
  BY <1>1, <1>2, <1>4

\* The codecs of an account are those of its section.
ListsInv ==
  \A k \in 1 .. Len(sip_account) :
    /\ file[account_from[k]] \in AccountSection
    /\ sip_account[k].codecs = AccountCodecs(file[account_from[k]])

LEMMA SectionKeepsLists ==
  ASSUME FileInv, ListsInv, NEW s \in Section, AddSection(s)
  PROVE  ListsInv'
<1>1. Grown(s)
  BY ReadGrows DEF FileInv, AddSection, main_add, account_add, dialplan_add,
     codec_add, channel_add
<1>2. \A k \in 1 .. Len(sip_account) :
        /\ account_from[k] \in 1 .. Len(file)
        /\ file'[account_from[k]] = file[account_from[k]]
  BY <1>1 DEF FileInv, AccountsInv, Grown
<1>3. CASE UNCHANGED <<sip_account, account_from>>
  BY <1>2, <1>3 DEF ListsInv
<1>4. CASE /\ s.type = "account"
           /\ sip_account' = Append(sip_account, AccountOf(s))
           /\ account_from' = Append(account_from, Len(file'))
  <2> DEFINE n == Len(sip_account) + 1
  <2>1. s \in AccountSection
    BY <1>4, ConfigAssumption
       DEF MainSection, DialplanSection, IsCodecSection, IsChanSection
  <2>2. AccountOf(s).codecs = AccountCodecs(s)
    BY DEF AccountOf
  <2>3. /\ Len(sip_account) \in Nat /\ Len(sip_account') = n
        /\ \A k \in 1 .. Len(sip_account) : sip_account'[k] = sip_account[k]
                                          /\ account_from'[k] = account_from[k]
        /\ sip_account'[n] = AccountOf(s) /\ account_from'[n] = Len(file')
    BY <1>4, AppendOne DEF FileInv, AccountsInv
  <2>4. file'[Len(file')] = s
    BY <1>1 DEF Grown
  <2>5. \A k \in 1 .. n : k \in 1 .. Len(sip_account) \/ k = n
    BY <2>3
  <2> HIDE DEF n
  <2>6. ASSUME NEW k \in 1 .. n
        PROVE  /\ file'[account_from'[k]] \in AccountSection
               /\ sip_account'[k].codecs = AccountCodecs(file'[account_from'[k]])
    <3>1. CASE k = n
      BY <2>1, <2>2, <2>3, <2>4, <3>1
    <3>2. CASE k \in 1 .. Len(sip_account)
      BY <1>2, <2>3, <3>2 DEF ListsInv
    <3>3. QED
      BY <2>5, <3>1, <3>2
  <2>7. QED
    BY <2>3, <2>6 DEF ListsInv
<1>5. QED
  BY <1>3, <1>4 DEF AddSection, main_add, account_add, dialplan_add,
     codec_add, channel_add, AppendIf

\* The list of an account that names no codec twice leaves room for the
\* codec_type_NONE that ends it, whatever is unknown in it.
THEOREM CodecListsEnd == Spec => []CodecListEnds
<1>1. Init => ListsInv
  BY DEF Init, NoConfig, ListsInv
<1>2. FileInv /\ ListsInv /\ [Next]_vars => ListsInv'
  <2>1. SUFFICES ASSUME FileInv, ListsInv, [Next]_vars
                 PROVE  ListsInv'
    OBVIOUS
  <2>2. CASE UNCHANGED <<file, sip_account, account_from>>
    BY <2>1, <2>2 DEF ListsInv
  <2>3. QED
    BY <2>1, <2>2, SectionKeepsLists
       DEF Next, uci_load_fails, svd_conf_init_ends, vars
<1>3. FileInv /\ ListsInv => CodecListEnds
  <2>1. SUFFICES ASSUME FileInv, ListsInv, NEW a \in DOMAIN sip_account,
                        \A k, l \in DOMAIN file[account_from[a]].codecs :
                          /\ file[account_from[a]].codecs[k]
                               = file[account_from[a]].codecs[l]
                          /\ file[account_from[a]].codecs[k] # None
                          => k = l
                 PROVE  Len(sip_account[a].codecs) < CodMasSize
    BY DEF CodecListEnds
  <2>2. a \in 1 .. Len(sip_account)
    BY <2>1, AppendOne DEF FileInv, AccountsInv
  <2>3. /\ file[account_from[a]] \in AccountSection
        /\ sip_account[a].codecs = AccountCodecs(file[account_from[a]])
    BY <2>1, <2>2 DEF ListsInv
  <2>4. QED
    BY <2>1, <2>3, AccountListEnds
<1>4. QED
  BY <1>1, <1>2, <1>3, FileInvariant, PTL DEF Spec
-----------------------------------------------------------------------------
(* The choice of the account.                                              *)

Chosen == INSTANCE SvdInviteToProofs WITH
  num_accounts <- Len(sip_account),
  num_entries <- Len(dial_plan),
  usable <- [a \in AccountIdx |-> sip_account[a + 1].enabled /\ a \in registered],
  outgoing_priority <-
    [a \in AccountIdx |-> sip_account[a + 1].outgoing_priority[chan]],
  dial_plan <- [e \in EntryIdx |-> dial_plan[e + 1].account]

-----------------------------------------------------------------------------
\* Every account has a switch and a priority for each channel, and every entry
\* an index.
Typed(account) ==
  /\ account.enabled \in BOOLEAN
  /\ \A c \in Chan : account.outgoing_priority[c] \in Int

VectorsTyped ==
  /\ IsSeq(sip_account)
  /\ IsSeq(dial_plan)
  /\ \A k \in 1 .. Len(sip_account) : Typed(sip_account[k])
  /\ \A e \in 1 .. Len(dial_plan) : dial_plan[e].account \in Int

LEMMA NewAccountTyped ==
  ASSUME IsSeq(sip_account), NEW s \in Section, s.type = "account"
  PROVE  Typed(AccountOf(s))
<1>1. s \in AccountSection
  BY ConfigAssumption
     DEF MainSection, DialplanSection, IsCodecSection, IsChanSection
<1>2. s.disabled \in BOOLEAN /\ s.outgoing_priority \in Seq(Int)
  BY <1>1 DEF AccountSection
<1>3. DefaultPriority(sip_account) \in Int
  BY AppendOne DEF DefaultPriority
<1>4. ASSUME NEW c \in Chan
      PROVE  AccountOf(s).outgoing_priority[c] \in Int
  <2>1. c \in Nat
    BY ConfigAssumption
  <2>2. AccountOf(s).outgoing_priority[c]
          = IF s.outgoing_priority = << >> THEN DefaultPriority(sip_account)
            ELSE IF c < Len(s.outgoing_priority) THEN s.outgoing_priority[c + 1]
            ELSE 0
    BY DEF AccountOf, PerChan
  <2>3. c < Len(s.outgoing_priority) => s.outgoing_priority[c + 1] \in Int
    BY <1>2, <2>1
  <2>4. QED
    BY <1>3, <2>2, <2>3
<1>5. QED
  BY <1>2, <1>4 DEF Typed, AccountOf

LEMMA SectionKeepsTyped ==
  ASSUME VectorsTyped, NEW s \in Section, AddSection(s)
  PROVE  VectorsTyped'
<1>1. CASE UNCHANGED <<sip_account, dial_plan>>
  BY <1>1 DEF VectorsTyped, Typed
<1>2. CASE /\ s.type = "account" /\ dial_plan' = dial_plan
           /\ sip_account' = Append(sip_account, AccountOf(s))
  BY <1>2, AppendOne, NewAccountTyped DEF VectorsTyped
<1>3. CASE /\ Resolves(s) /\ sip_account' = sip_account
           /\ dial_plan' = Append(dial_plan, RecordOf(s))
  <2>1. RecordOf(s).account \in Int
    BY <1>3, FirstOfName DEF VectorsTyped, RecordOf, Resolves
  <2>2. QED
    BY <1>3, <2>1, AppendOne DEF VectorsTyped, Typed
<1>4. QED
  BY <1>1, <1>2, <1>3 DEF AddSection, main_add, account_add, dialplan_add,
     codec_add, channel_add, AppendIf

LEMMA VectorsAreTyped == Spec => []VectorsTyped
<1>1. Init => VectorsTyped
  BY DEF Init, NoConfig, VectorsTyped, IsSeq
<1>2. VectorsTyped /\ [Next]_vars => VectorsTyped'
  <2>1. SUFFICES ASSUME VectorsTyped, [Next]_vars
                 PROVE  VectorsTyped'
    OBVIOUS
  <2>2. CASE UNCHANGED <<sip_account, dial_plan>>
    BY <2>1, <2>2 DEF VectorsTyped, Typed
  <2>3. QED
    BY <2>1, <2>2, SectionKeepsTyped
       DEF Next, uci_load_fails, svd_conf_init_ends, vars
<1>3. QED
  BY <1>1, <1>2, PTL DEF Spec

-----------------------------------------------------------------------------
\* Once a number is dialled the file stands, and the two loops are where
\* SvdInviteToProofs says.
ChoiceInv ==
  loop # "idle" => load = "accepted" /\ Chosen!TypeOK /\ Chosen!LoopInv

LEMMA DialKeepsChoice ==
  ASSUME FileInv, VectorsTyped, NEW P, svd_invite_to(P)
  PROVE  ChoiceInv'
<1>1. /\ load' = "accepted" /\ UNCHANGED <<sip_account, dial_plan>>
      /\ chan' \in Chan /\ loop' = "dial_plan" /\ i' = 0
      /\ dplan_index' = -1 /\ account_index' = -1 /\ account_priority' = 0
      /\ prefixed' \in SUBSET EntryIdx
  BY DEF svd_invite_to, vars
<1>2. AccountIdx' = AccountIdx /\ EntryIdx' = EntryIdx
  BY <1>1 DEF AccountIdx, EntryIdx
<1>3. Len(sip_account) \in Nat /\ Len(dial_plan) \in Nat
  BY AppendOne DEF FileInv, AccountsInv, EntriesInv
<1>4. ASSUME NEW a \in AccountIdx
      PROVE  /\ sip_account[a + 1].enabled \in BOOLEAN
             /\ sip_account[a + 1].outgoing_priority[chan'] \in Int
  BY <1>1, <1>3 DEF AccountIdx, VectorsTyped, Typed
<1>5. ASSUME NEW e \in EntryIdx
      PROVE  dial_plan[e + 1].account \in AccountIdx
  <2>1. e + 1 \in 1 .. Len(dial_plan)
    BY <1>3 DEF EntryIdx
  <2>2. dial_plan[e + 1].account + 1 \in 1 .. Len(sip_account)
    BY <2>1 DEF FileInv, EntriesInv, Leads
  <2>3. dial_plan[e + 1].account \in Int
    BY <2>1 DEF VectorsTyped
  <2>4. QED
    BY <1>3, <2>2, <2>3 DEF AccountIdx
<1>6. Chosen!TypeOK'
  BY <1>1, <1>2, <1>3, <1>4, <1>5
     DEF Chosen!TypeOK, Chosen!AccountIdx, Chosen!EntryIdx, AccountIdx, EntryIdx
<1>7. Chosen!LoopInv'
  BY <1>1 DEF Chosen!LoopInv, Chosen!PlanInv, Chosen!EntryIdx,
     Chosen!DialPlanDecides, Chosen!LowestPriorityCalls
<1>8. QED
  BY <1>1, <1>6, <1>7 DEF ChoiceInv

LEMMA RoundKeepsChoice ==
  ASSUME ChoiceInv, TryEntry \/ NoEntry \/ TryAccount \/ NoMoreAccounts
  PROVE  ChoiceInv'
<1>1. Chosen!Next /\ loop # "idle" /\ load' = load
  <2>1. CASE TryEntry
    BY <2>1 DEF TryEntry, Rest, vars, Invite!TryEntry, Invite!config,
       Invite!Decides, Chosen!Next, Chosen!TryEntry, Chosen!config,
       Chosen!Decides
  <2>2. CASE NoEntry
    BY <2>2 DEF NoEntry, Rest, vars, Invite!NoEntry, Invite!config,
       Chosen!Next, Chosen!NoEntry, Chosen!config
  <2>3. CASE TryAccount
    BY <2>3 DEF TryAccount, Rest, vars, Invite!TryAccount, Invite!config,
       Invite!Better, Chosen!Next, Chosen!TryAccount, Chosen!config,
       Chosen!Better
  <2>4. CASE NoMoreAccounts
    BY <2>4 DEF NoMoreAccounts, Rest, vars, Invite!NoMoreAccounts,
       Invite!config, Chosen!Next, Chosen!NoMoreAccounts, Chosen!config
  <2>5. QED
    BY <2>1, <2>2, <2>3, <2>4
<1>2. Chosen!TypeOK /\ Chosen!LoopInv /\ load = "accepted"
  BY <1>1 DEF ChoiceInv
<1>3. Chosen!TypeOK' /\ Chosen!LoopInv'
  BY <1>1, <1>2, Chosen!StepKeepsTypeOK, Chosen!StepKeepsLoopInv
<1>4. QED
  BY <1>1, <1>2, <1>3 DEF ChoiceInv

LEMMA DialOutLoads == DialOutSpec => Spec
<1>1. DialOutInit => Init
  BY DEF DialOutInit
<1>2. [DialOutNext]_<<vars, callVars>> => [Next]_vars
  BY DEF DialOutNext, Load, svd_invite_to, TryEntry, NoEntry, TryAccount,
     NoMoreAccounts, Rest
<1>3. QED
  BY <1>1, <1>2, PTL DEF DialOutSpec, Spec

LEMMA ChoiceInvariant == DialOutSpec => []ChoiceInv
<1>1. DialOutInit => ChoiceInv
  BY DEF DialOutInit, ChoiceInv
<1>2. FileInv /\ VectorsTyped /\ ChoiceInv /\ [DialOutNext]_<<vars, callVars>>
        => ChoiceInv'
  <2>1. SUFFICES ASSUME FileInv, VectorsTyped, ChoiceInv,
                        [DialOutNext]_<<vars, callVars>>
                 PROVE  ChoiceInv'
    OBVIOUS
  <2>2. CASE Load
    <3>1. load = "loading" /\ loop' = loop
      BY <2>2 DEF Load, callVars, Next, AddSection, main_add, account_add,
         dialplan_add, codec_add, channel_add, Read, uci_load_fails,
         svd_conf_init_ends
    <3>2. QED
      BY <2>1, <3>1 DEF ChoiceInv
  <2>3. CASE UNCHANGED <<vars, callVars>>
    <3>1. CASE loop = "idle"
      BY <2>3, <3>1 DEF callVars, ChoiceInv
    <3>2. CASE loop # "idle"
      <4>1. UNCHANGED Chosen!vars /\ loop' = loop /\ load' = load
        BY <2>3 DEF vars, callVars, Chosen!vars, Chosen!config, AccountIdx, EntryIdx
      <4>2. Chosen!TypeOK' /\ Chosen!LoopInv'
        BY <2>1, <3>2, <4>1, Chosen!StepKeepsTypeOK, Chosen!StepKeepsLoopInv
           DEF ChoiceInv
      <4>3. QED
        BY <2>1, <3>2, <4>1, <4>2 DEF ChoiceInv
    <3>3. QED
      BY <3>1, <3>2
  <2>4. QED
    BY <2>1, <2>2, <2>3, DialKeepsChoice, RoundKeepsChoice DEF DialOutNext
<1>3. QED
  BY <1>1, <1>2, DialOutLoads, FileInvariant, VectorsAreTyped, PTL DEF DialOutSpec

\* Whatever file was loaded and whatever is registered, the first entry of the
\* dial plan that fits the number, with an account that works, decides.
THEOREM PlanOfFileDecides == DialOutSpec => []DialPlanDecides
<1>1. ChoiceInv => DialPlanDecides
  BY DEF ChoiceInv, Chosen!LoopInv, DialPlanDecides, Invite!DialPlanDecides,
     Chosen!DialPlanDecides, Invite!Fits, Chosen!Fits, Invite!EntryIdx,
     Chosen!EntryIdx
<1>2. QED
  BY <1>1, ChoiceInvariant, PTL

\* And without such an entry the working account with the lowest priority that
\* the file gives it, or leaves to the order of the accounts, decides.
THEOREM PriorityOfFileDecides == DialOutSpec => []LowestPriorityCalls
<1>1. ChoiceInv => LowestPriorityCalls
  BY DEF ChoiceInv, Chosen!LoopInv, LowestPriorityCalls,
     Invite!LowestPriorityCalls, Chosen!LowestPriorityCalls, Invite!Fits,
     Chosen!Fits, Invite!EntryIdx, Chosen!EntryIdx, Invite!Preferred,
     Chosen!Preferred, Invite!Candidate, Chosen!Candidate, Invite!AccountIdx,
     Chosen!AccountIdx
<1>2. QED
  BY <1>1, ChoiceInvariant, PTL
=============================================================================
