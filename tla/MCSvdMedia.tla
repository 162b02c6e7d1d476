----------------------------- MODULE MCSvdMedia -----------------------------
(* Values for the constants of SvdMedia. *)
EXTENDS SvdMedia
CONSTANTS PCMA, G729, TE, alice, bob
Codecs == {PCMA, G729}
\* Events and the codec of faxes, or no events and another codec: nothing of
\* one may be left when the other counts.
Descriptions ==
  {[cod |-> PCMA, pt |-> 97, te |-> 101, peer |-> alice],
   [cod |-> G729, pt |-> 18, te |-> NoPayload, peer |-> bob]}
=============================================================================
