----------------------------- MODULE SvdDialOut -----------------------------
(***************************************************************************)
(* SvdConfig and SvdInviteTo together: the configuration is loaded, then   *)
(* numbers are dialled on the phones and svd_invite_to chooses an account  *)
(* from what the file has become.  Registrations come and go between the   *)
(* calls.                                                                  *)
(***************************************************************************)
EXTENDS SvdConfig

VARIABLES chan,        \* the channel that calls
          registered,  \* the accounts that are registered, by index
          prefixed,    \* the entries whose prefix the number has
          loop, i, dplan_index, account_index, account_priority  \* SvdInviteTo

callVars == <<chan, registered, prefixed, loop, i, dplan_index,
              account_index, account_priority>>

\* The indices from 0 of the two vectors
AccountIdx == 0 .. Len(sip_account) - 1
EntryIdx == 0 .. Len(dial_plan) - 1

\* svd_invite_to over the vectors that were loaded
Invite == INSTANCE SvdInviteTo WITH
  num_accounts <- Len(sip_account),
  num_entries <- Len(dial_plan),
  usable <- [a \in AccountIdx |-> sip_account[a + 1].enabled /\ a \in registered],
  outgoing_priority <-
    [a \in AccountIdx |-> sip_account[a + 1].outgoing_priority[chan]],
  dial_plan <- [e \in EntryIdx |-> dial_plan[e + 1].account]

DialOutInit ==
  /\ Init
  /\ chan \in Chan /\ registered = {} /\ prefixed = {}
  /\ loop = "idle" /\ i = 0
  /\ dplan_index = -1 /\ account_index = -1 /\ account_priority = 0

Load == Next /\ UNCHANGED callVars

\* A number is dialled: P is the set of prefixes of the plan that it has.
svd_invite_to(P) ==
  /\ load = "accepted" /\ loop \in {"idle", "done"}
  /\ chan' \in Chan
  /\ registered' \in SUBSET {a \in AccountIdx : sip_account[a + 1].enabled}
  /\ prefixed' = {e \in EntryIdx : dial_plan[e + 1].prefix \in P}
  /\ loop' = "dial_plan" /\ i' = 0
  /\ dplan_index' = -1 /\ account_index' = -1 /\ account_priority' = 0
  /\ UNCHANGED vars

Rest == UNCHANGED <<vars, chan, registered>>
TryEntry == Rest /\ Invite!TryEntry
NoEntry == Rest /\ Invite!NoEntry
TryAccount == Rest /\ Invite!TryAccount
NoMoreAccounts == Rest /\ Invite!NoMoreAccounts

DialOutNext ==
  \/ Load
  \/ \E P \in SUBSET Prefix : svd_invite_to(P)
  \/ TryEntry \/ NoEntry \/ TryAccount \/ NoMoreAccounts

DialOutSpec == DialOutInit /\ [][DialOutNext]_<<vars, callVars>>

-----------------------------------------------------------------------------
(***************************************************************************)
(* Properties                                                              *)
(***************************************************************************)
\* Over every configuration that a file can make, the dial plan decides first,
\* if one of the entries that the number matches has an account that works.
DialPlanDecides == Invite!DialPlanDecides

\* And the priorities that the file gives, or that it leaves to the order of
\* the accounts, decide next.
LowestPriorityCalls == Invite!LowestPriorityCalls
=============================================================================
