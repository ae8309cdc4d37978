----------------------------- MODULE MCRtbList -----------------------------
(* Instances of RtbList for TLC. *)
EXTENDS RtbList

CONSTANTS s1, r1, m1, t1, h1, h2

MCFrames == {s1, r1, m1, t1, h1, h2}
MCKind == (s1 :> "STREAM") @@ (r1 :> "RST_STREAM") @@ (m1 :> "MAX_DATA")
            @@ (t1 :> "STOP_SENDING") @@ (h1 :> "HANDSHAKE") @@ (h2 :> "HANDSHAKE")

\* Two control frames that share a packet, two of which one is cancelled in
\* it, and a client that sends 0-RTT data between its two handshake messages.
MCPlans ==
  {[hs |-> "post", frames |-> {r1, m1}, rooms |-> {0, 1, 2}, max |-> 5],
   [hs |-> "post", frames |-> {t1, m1}, rooms |-> {2}, max |-> 5],
   [hs |-> "wait", frames |-> {s1, h1, h2}, rooms |-> {1}, max |-> 4]}
=============================================================================
