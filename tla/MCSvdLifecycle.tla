--------------------------- MODULE MCSvdLifecycle ---------------------------
(* The messages that clients send in the run of SvdLifecycle.              *)
EXTENDS SvdLifecycle

Msg(cmd, chan, n, fmt) == [cmd |-> cmd, chan |-> chan, n |-> n, fmt |-> fmt]

MCMessage ==
  {Msg(cmd, "missing", 0, "missing") :
     cmd \in {"jbt", "shutdown", "get_regs", "get_chans", "get_jb_stat", "none"}}
  \union {Msg("get_jb_stat", chan, 0, fmt) :
            chan \in {"default", "all"}, fmt \in {"default", "cli"}}
  \union {Msg("get_rtcp_stat", "active", 0, fmt) : fmt \in {"json", "unknown"}}
  \union {Msg("get_rtcp_stat", "number", n, "json") : n \in {-1, 1, 3, 4}}
=============================================================================
