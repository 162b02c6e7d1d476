-------------------------- MODULE SvdInviteToProofs --------------------------
(***************************************************************************)
(* The choice of the account, for any number of accounts, dial plan        *)
(* entries and priorities.  LoopInv says what each loop has established    *)
(* about the entries and the accounts before i.                            *)
(***************************************************************************)
EXTENDS SvdInviteTo, TLAPS

LEMMA InitTypeOK ==
  ASSUME Init
  PROVE  TypeOK
  BY DEF Init, TypeOK, EntryIdx, AccountIdx

\* Nothing else runs: the vectors keep their lengths.
LEMMA SameIndices ==
  ASSUME [Next]_vars
  PROVE  /\ AccountIdx' = AccountIdx /\ EntryIdx' = EntryIdx
         /\ num_accounts' = num_accounts /\ num_entries' = num_entries
  BY DEF Next, vars, TryEntry, NoEntry, TryAccount, NoMoreAccounts, config,
     AccountIdx, EntryIdx

LEMMA StepKeepsTypeOK ==
  ASSUME TypeOK, [Next]_vars
  PROVE  TypeOK'
<1>0. /\ AccountIdx' = AccountIdx /\ EntryIdx' = EntryIdx
      /\ num_accounts' = num_accounts /\ num_entries' = num_entries
  BY SameIndices
<1>1. CASE TryEntry
  <2>1. i \in EntryIdx
    BY <1>1 DEF TypeOK, TryEntry, EntryIdx
  <2>2. dial_plan[i] \in AccountIdx
    BY <2>1 DEF TypeOK
  <2>3. QED
    BY <1>0, <1>1, <2>1, <2>2 DEF TypeOK, TryEntry, config, EntryIdx
<1>2. CASE NoEntry
  BY <1>0, <1>2 DEF TypeOK, NoEntry, config
<1>3. CASE TryAccount
  <2>1. i \in AccountIdx /\ i + 1 \in Nat /\ i + 1 <= num_accounts
    BY <1>3 DEF TypeOK, TryAccount, AccountIdx
  <2>2. outgoing_priority[i] \in Int
    BY <2>1 DEF TypeOK
  <2>3. QED
    BY <1>0, <1>3, <2>1, <2>2 DEF TypeOK, TryAccount, config
<1>4. CASE NoMoreAccounts
  BY <1>0, <1>4 DEF TypeOK, NoMoreAccounts, config
<1>5. CASE UNCHANGED vars
  BY <1>0, <1>5 DEF TypeOK, vars, config
<1>6. QED
  BY <1>1, <1>2, <1>3, <1>4, <1>5 DEF Next

\* The loops index the dial plan and the accounts within their bounds.
THEOREM IndicesInBounds == Spec => []TypeOK
  BY InitTypeOK, StepKeepsTypeOK, PTL DEF Spec

-----------------------------------------------------------------------------
\* Of the accounts below n, account_index is the one to call with.
BestBelow(n) ==
  IF account_index = -1
  THEN account_priority = 0 /\ \A a \in AccountIdx : a < n => ~Candidate(a)
  ELSE /\ account_index < n
       /\ Candidate(account_index)
       /\ account_priority = outgoing_priority[account_index]
       /\ \A b \in AccountIdx :
            b < n /\ Candidate(b)
              => \/ account_priority < outgoing_priority[b]
                 \/ account_priority = outgoing_priority[b]
                      /\ account_index <= b

PlanInv ==
  /\ dplan_index = -1 /\ account_index = -1 /\ account_priority = 0
  /\ \A e \in EntryIdx : e < i => ~Fits(e)

AccountsInv ==
  /\ dplan_index = -1
  /\ \A e \in EntryIdx : ~Fits(e)
  /\ BestBelow(i)

LoopInv ==
  /\ loop = "dial_plan" => PlanInv
  /\ loop = "accounts" => AccountsInv
  /\ DialPlanDecides
  /\ LowestPriorityCalls

LEMMA EntryKeepsLoopInv ==
  ASSUME TypeOK, LoopInv, TryEntry
  PROVE  LoopInv'
<1>1. i \in EntryIdx /\ PlanInv
  BY DEF TypeOK, TryEntry, EntryIdx, LoopInv
<1>2. EntryIdx' = EntryIdx /\ \A e \in EntryIdx : Fits(e)' = Fits(e)
  BY SameIndices DEF Next, TryEntry, config, Fits
<1>3. CASE Fits(i)
  <2>1. /\ loop' = "done" /\ dplan_index' = i
        /\ account_index' = dial_plan[i] /\ dial_plan' = dial_plan
    BY <1>3 DEF TryEntry, config, Decides, Fits
  <2>2. \A e \in EntryIdx : Fits(e) => i <= e
    BY <1>1 DEF PlanInv, EntryIdx
  <2>3. i # -1
    BY <1>1 DEF EntryIdx
  <2>4. DialPlanDecides'
    BY <1>1, <1>2, <1>3, <2>1, <2>2 DEF DialPlanDecides
  <2>5. QED
    BY <2>1, <2>3, <2>4 DEF LoopInv, LowestPriorityCalls
<1>4. CASE ~Fits(i)
  <2>1. /\ i' = i + 1
        /\ UNCHANGED <<loop, dplan_index, account_index, account_priority>>
    BY <1>4 DEF TryEntry, Decides, Fits
  <2>2. \A e \in EntryIdx : e < i + 1 => ~Fits(e)
    BY <1>1, <1>4 DEF PlanInv, EntryIdx
  <2>3. PlanInv'
    BY <1>1, <1>2, <2>1, <2>2 DEF PlanInv
  <2>4. loop' = "dial_plan"
    BY <2>1 DEF TryEntry
  <2>5. QED
    BY <2>3, <2>4 DEF LoopInv, DialPlanDecides, LowestPriorityCalls
<1>5. QED
  BY <1>3, <1>4

LEMMA AccountKeepsBest ==
  ASSUME TypeOK, i \in AccountIdx, BestBelow(i), TryAccount
  PROVE  BestBelow(i)'
<1>1. /\ outgoing_priority' = outgoing_priority
      /\ \A a \in AccountIdx : Candidate(a)' = Candidate(a)
      /\ i' = i + 1 /\ AccountIdx' = AccountIdx
  BY SameIndices DEF Next, TryAccount, config, Candidate
<1>2. \A a \in AccountIdx : outgoing_priority[a] \in Int
  BY DEF TypeOK
<1>3. account_priority \in Int /\ account_index \in Int
  BY DEF TypeOK, AccountIdx
<1>4. \A a \in AccountIdx : a < i + 1 <=> a < i \/ a = i
  BY DEF AccountIdx
<1>5. CASE Better(i)
  <2>1. account_index' = i /\ account_priority' = outgoing_priority[i]
    BY <1>5 DEF TryAccount
  <2>2. Candidate(i) /\ i # -1 /\ i < i + 1 /\ i <= i
    BY <1>5 DEF Better, Candidate, AccountIdx
  <2>3. ASSUME NEW b \in AccountIdx, b < i, Candidate(b)
        PROVE  outgoing_priority[i] < outgoing_priority[b]
    BY <1>2, <1>3, <1>5, <2>3 DEF Better, BestBelow, Candidate
  <2>4. QED
    BY <1>1, <1>4, <2>1, <2>2, <2>3 DEF BestBelow
<1>6. CASE ~Better(i)
  <2>1. UNCHANGED <<account_index, account_priority>>
    BY <1>6 DEF TryAccount
  <2>2. CASE account_index = -1
    <3>1. ~Candidate(i)
      BY <1>6, <2>2 DEF Better, BestBelow, Candidate
    <3>2. QED
      BY <1>1, <1>4, <2>1, <2>2, <3>1 DEF BestBelow
  <2>3. CASE account_index # -1
    <3>1. account_index \in AccountIdx /\ account_index < i
      BY <2>3 DEF TypeOK, BestBelow
    <3>2. account_index < i + 1 /\ account_index <= i
      BY <3>1 DEF AccountIdx
    <3>3. Candidate(i) => account_priority <= outgoing_priority[i]
      BY <1>2, <1>3, <1>6, <2>3, <3>1 DEF Better, BestBelow, Candidate
    <3>4. Candidate(i) => \/ account_priority < outgoing_priority[i]
                          \/ account_priority = outgoing_priority[i]
      BY <1>2, <1>3, <3>3
    <3>5. QED
      BY <1>1, <1>4, <2>1, <2>3, <3>1, <3>2, <3>4 DEF BestBelow
  <2>4. QED
    BY <2>2, <2>3
<1>7. QED
  BY <1>5, <1>6

LEMMA AccountsKeepLoopInv ==
  ASSUME TypeOK, LoopInv, TryAccount \/ NoMoreAccounts
  PROVE  LoopInv'
<1>1. AccountsInv
  BY DEF LoopInv, TryAccount, NoMoreAccounts
<1>2. /\ \A e \in EntryIdx : Fits(e)' = Fits(e)
      /\ \A a \in AccountIdx : Candidate(a)' = Candidate(a)
      /\ dplan_index' = dplan_index /\ outgoing_priority' = outgoing_priority
      /\ AccountIdx' = AccountIdx /\ EntryIdx' = EntryIdx
  BY SameIndices DEF Next, TryAccount, NoMoreAccounts, config, Fits, Candidate
<1>3. CASE TryAccount
  <2>1. i \in AccountIdx /\ i' = i + 1 /\ loop' = "accounts"
    BY <1>3 DEF TypeOK, TryAccount, AccountIdx
  <2>2. BestBelow(i)'
    BY <1>1, <1>3, <2>1, AccountKeepsBest DEF AccountsInv
  <2>3. AccountsInv'
    BY <1>1, <1>2, <2>2 DEF AccountsInv
  <2>4. QED
    BY <2>1, <2>3 DEF LoopInv, DialPlanDecides, LowestPriorityCalls
<1>4. CASE NoMoreAccounts
  <2>1. /\ i = num_accounts /\ loop' = "done"
        /\ account_index' = account_index /\ dplan_index = -1
    BY <1>1, <1>4 DEF NoMoreAccounts, AccountsInv
  <2>2. \A a \in AccountIdx : a < i
    BY <2>1 DEF AccountIdx, TypeOK
  <2>3. account_index = -1 => \A a \in AccountIdx : ~Candidate(a)
    BY <1>1, <2>2 DEF AccountsInv, BestBelow
  <2>4. account_index # -1 => Preferred(account_index)
    BY <1>1, <2>2 DEF AccountsInv, BestBelow, Preferred
  <2>5. account_index # -1 => account_index \in AccountIdx
    BY DEF TypeOK
  <2>6. LowestPriorityCalls'
    BY <1>1, <1>2, <2>1, <2>3, <2>4, <2>5
       DEF LowestPriorityCalls, AccountsInv, Preferred
  <2>7. QED
    BY <1>2, <2>1, <2>6 DEF LoopInv, DialPlanDecides
<1>5. QED
  BY <1>3, <1>4

LEMMA InitLoopInv ==
  ASSUME Init
  PROVE  LoopInv
  BY DEF Init, LoopInv, PlanInv, DialPlanDecides,
     LowestPriorityCalls, EntryIdx

LEMMA StepKeepsLoopInv ==
  ASSUME TypeOK, LoopInv, [Next]_vars
  PROVE  LoopInv'
<1>1. CASE NoEntry
  <2>1. PlanInv /\ i = num_entries
    BY <1>1 DEF LoopInv, NoEntry
  <2>2. \A e \in EntryIdx : ~Fits(e)
    BY <2>1 DEF PlanInv, EntryIdx, TypeOK
  <2>3. /\ \A e \in EntryIdx : Fits(e)' = Fits(e)
        /\ dplan_index' = -1 /\ account_index' = -1 /\ account_priority' = 0
        /\ loop' = "accounts" /\ i' = 0
        /\ AccountIdx' = AccountIdx /\ EntryIdx' = EntryIdx
    BY <1>1, <2>1, SameIndices DEF Next, NoEntry, config, Fits, PlanInv
  <2>4. \A a \in AccountIdx : ~(a < 0)
    BY DEF AccountIdx
  <2>5. QED
    BY <2>2, <2>3, <2>4 DEF LoopInv, AccountsInv, BestBelow, DialPlanDecides,
       LowestPriorityCalls
<1>2. CASE UNCHANGED vars
  BY <1>2, SameIndices DEF vars, config, LoopInv, PlanInv, AccountsInv, BestBelow,
     DialPlanDecides, LowestPriorityCalls, Fits, Candidate, Preferred
<1>3. QED
  BY <1>1, <1>2, EntryKeepsLoopInv, AccountsKeepLoopInv DEF Next

LEMMA LoopInvariant == Spec => []LoopInv
  BY InitLoopInv, StepKeepsLoopInv, IndicesInBounds, PTL DEF Spec

\* The first dial plan entry with a working account decides.
THEOREM FirstEntryDecides == Spec => []DialPlanDecides
<1>1. LoopInv => DialPlanDecides
  BY DEF LoopInv
<1>2. QED
  BY <1>1, LoopInvariant, PTL

\* Without such an entry the lowest positive priority does, and no account is
\* chosen only when none can place the call.
THEOREM LowestPriorityIsChosen == Spec => []LowestPriorityCalls
<1>1. LoopInv => LowestPriorityCalls
  BY DEF LoopInv
<1>2. QED
  BY <1>1, LoopInvariant, PTL
=============================================================================
