----------------------------- MODULE SvdInviteTo -----------------------------
(***************************************************************************)
(* How svd_invite_to chooses the account of an outgoing call: first the    *)
(* dial plan, then the priorities of the accounts on the channel.  One     *)
(* step is one round of one of its two loops.  Nothing else runs during    *)
(* the call, so the configuration and the registrations stand still; they  *)
(* are arbitrary.                                                          *)
(*                                                                         *)
(* Abstracted: the number dialled and the prefixes are the set of entries  *)
(* whose prefix the number begins with, and the priorities are those of    *)
(* the channel that calls.                                                 *)
(***************************************************************************)
EXTENDS Integers

VARIABLES num_accounts,      \* su_vector_len(g_conf.sip_account)
          num_entries,       \* su_vector_len(g_conf.dial_plan)
          usable,            \* account->enabled && account->registered
          outgoing_priority, \* account->outgoing_priority[chan_idx]
          prefixed,          \* the entries whose prefix the number has
          dial_plan,         \* dplan->account of each entry
          loop,              \* which loop is running
          i, dplan_index, account_index, account_priority

config == <<num_accounts, num_entries, usable, outgoing_priority, prefixed,
            dial_plan>>
vars == <<config, loop, i, dplan_index, account_index, account_priority>>

AccountIdx == 0 .. num_accounts - 1
EntryIdx == 0 .. num_entries - 1

\* The indices stay within the vectors that they index.
TypeOK ==
  /\ num_accounts \in Nat
  /\ num_entries \in Nat
  /\ usable \in [AccountIdx -> BOOLEAN]
  /\ outgoing_priority \in [AccountIdx -> Int]
  /\ prefixed \in SUBSET EntryIdx
  /\ dial_plan \in [EntryIdx -> AccountIdx]
  /\ loop \in {"dial_plan", "accounts", "done"}
  /\ i \in Nat
  /\ loop = "dial_plan" => i <= num_entries
  /\ loop = "accounts" => i <= num_accounts
  /\ dplan_index \in EntryIdx \union {-1}
  /\ account_index \in AccountIdx \union {-1}
  /\ account_priority \in Int

Init ==
  /\ num_accounts \in Nat
  /\ num_entries \in Nat
  /\ usable \in [AccountIdx -> BOOLEAN]
  /\ outgoing_priority \in [AccountIdx -> Int]
  /\ prefixed \in SUBSET EntryIdx
  /\ dial_plan \in [EntryIdx -> AccountIdx]
  /\ loop = "dial_plan" /\ i = 0
  /\ dplan_index = -1 /\ account_index = -1 /\ account_priority = 0

\* An entry that decides: its account can be used, too.
Wrong_Decides(e) == e \in prefixed
Decides(e) == e \in prefixed /\ usable[dial_plan[e]]

TryEntry ==
  /\ loop = "dial_plan" /\ i < num_entries
  /\ IF Decides(i)
       THEN /\ account_index' = dial_plan[i] /\ dplan_index' = i
            /\ loop' = "done" /\ i' = i
       ELSE i' = i + 1 /\ UNCHANGED <<account_index, dplan_index, loop>>
  /\ UNCHANGED <<config, account_priority>>

NoEntry ==
  /\ loop = "dial_plan" /\ i = num_entries
  /\ loop' = "accounts" /\ i' = 0
  /\ UNCHANGED <<config, dplan_index, account_index, account_priority>>

Wrong_Better(a) ==
  /\ usable[a]
  /\ outgoing_priority[a] > 0
  /\ outgoing_priority[a] <= account_priority \/ account_priority = 0
Better(a) ==
  /\ usable[a]
  /\ outgoing_priority[a] > 0
  /\ outgoing_priority[a] < account_priority \/ account_priority = 0

TryAccount ==
  /\ loop = "accounts" /\ i < num_accounts
  /\ IF Better(i)
       THEN account_index' = i /\ account_priority' = outgoing_priority[i]
       ELSE UNCHANGED <<account_index, account_priority>>
  /\ i' = i + 1
  /\ UNCHANGED <<config, loop, dplan_index>>

NoMoreAccounts ==
  /\ loop = "accounts" /\ i = num_accounts
  /\ loop' = "done"
  /\ UNCHANGED <<config, i, dplan_index, account_index, account_priority>>

Next == TryEntry \/ NoEntry \/ TryAccount \/ NoMoreAccounts

Spec == Init /\ [][Next]_vars

-----------------------------------------------------------------------------
(***************************************************************************)
(* Properties                                                              *)
(***************************************************************************)
\* Entry e matches the number and its account works.
Fits(e) == e \in prefixed /\ usable[dial_plan[e]]

\* Of the accounts that may place the call, a is the one that should.
Candidate(a) == usable[a] /\ outgoing_priority[a] > 0

Preferred(a) ==
  /\ Candidate(a)
  /\ \A b \in AccountIdx :
       Candidate(b) => \/ outgoing_priority[a] < outgoing_priority[b]
                       \/ outgoing_priority[a] = outgoing_priority[b] /\ a <= b

\* The first entry that matches and whose account works decides.  (svd/README
\* speaks of matching only.)
DialPlanDecides ==
  loop = "done" /\ dplan_index # -1
    => /\ Fits(dplan_index) /\ account_index = dial_plan[dplan_index]
       /\ \A e \in EntryIdx : Fits(e) => dplan_index <= e

\* Without such an entry the working account with the lowest priority places
\* the call, the first of them, and never one with priority 0; the call fails
\* only when there is none.
LowestPriorityCalls ==
  loop = "done" /\ dplan_index = -1
    => /\ \A e \in EntryIdx : ~Fits(e)
       /\ account_index # -1 => Preferred(account_index)
       /\ account_index = -1 => \A a \in AccountIdx : ~Candidate(a)
=============================================================================
