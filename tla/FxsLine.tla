------------------------------- MODULE FxsLine -------------------------------
(***************************************************************************)
(* What libab promises about an FXS line, whoever calls it and whichever   *)
(* ioctl fails: one thing changes at a time, one tone ends before another  *)
(* starts, and a disabled line feed goes through standby (ab_line.c: "if   *)
(* linefeed is disabled, and we want to set it to active, it will set it   *)
(* to standby first").                                                     *)
(***************************************************************************)
VARIABLES ring,      \* is the phone ringing?
          tone,      \* the tone on the line
          linefeed   \* the line feed

lineVars == <<ring, tone, linefeed>>

Tone == {"MUTE", "DIAL", "BUSY", "RINGBACK"}
Linefeed == {"DISABLED", "STANDBY", "ACTIVE"}

Init == ~ring /\ tone = "MUTE" /\ linefeed = "STANDBY"

Ring == /\ ring' = ~ring
        /\ UNCHANGED <<tone, linefeed>>

StartTone == /\ tone = "MUTE"
             /\ tone' \in Tone \ {"MUTE"}
             /\ UNCHANGED <<ring, linefeed>>

StopTone == /\ tone # "MUTE"
            /\ tone' = "MUTE"
            /\ UNCHANGED <<ring, linefeed>>

Feed == /\ linefeed' \in IF linefeed = "DISABLED" THEN {"STANDBY"}
                         ELSE Linefeed \ {linefeed}
        /\ UNCHANGED <<ring, tone>>

Next == Ring \/ StartTone \/ StopTone \/ Feed

Spec == Init /\ [][Next]_lineVars
=============================================================================
