---------------------------- MODULE MCSvdInviteTo ----------------------------
(* A file of a few sections for SvdDialOut. *)
EXTENDS SvdDialOut
CONSTANTS home, work, pcma, g729, te, p0, p1
Chans == {0, 1}
Names == {home, work}
Prefixes == {p0, p1}
Codecs == <<pcma, g729>>
Defaults == [c \in Codec |-> [o \in CodecOption |-> 1]]
Main(tos) == [type |-> "main", rtp_port_first |-> 6000, rtp_port_last |-> 6100,
              sip_tos |-> tos, rtp_tos |-> 16]
Account(n, complete, disabled, list, dtmf, priority, ring) ==
  [type |-> "account", name |-> n, complete |-> complete,
   disabled |-> disabled, codecs |-> list, dtmf |-> dtmf,
   outgoing_priority |-> priority, ring_incoming |-> ring]
Entry(p, n) == [type |-> "dialplan", prefix |-> p, account |-> n,
                replace |-> None, remove_prefix |-> TRUE]
CodecPart(c, o) == [type |-> "codec", codec |-> c, options |-> o]
ChanPart(c, o) == [type |-> "channel", channel |-> c, options |-> o]
Sections ==
  {Main(16), Main(256),
   Account(home, TRUE, FALSE, << >>, None, << >>, << >>),
   Account(work, TRUE, FALSE, <<g729, None>>, "info", <<0, 1>>, <<FALSE>>),
   Account(work, TRUE, TRUE, <<pcma, g729, None, te>>, "rfc2883", << >>, << >>),
   Account(home, TRUE, FALSE, <<None>>, None, << >>, << >>),
   Account(work, FALSE, FALSE, << >>, None, << >>, << >>),
   Entry(p0, home), Entry(p1, work), Entry(p0, None),
   CodecPart(pcma, [jb_loc_adpt |-> 1, user_payload |-> 97]),
   CodecPart(pcma, [jb_scaling |-> 256]), CodecPart(None, << >>),
   ChanPart(1, [mode |-> NFE]), ChanPart(1, [ne_nb |-> 16, fe_nb |-> 16]),
   ChanPart(2, << >>)}
=============================================================================
