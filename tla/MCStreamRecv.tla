---------------------------- MODULE MCStreamRecv ----------------------------
(* Instances of StreamRecv for TLC. *)
EXTENDS StreamRecv

CONSTANT N      \* offsets that frames reach

\* Every STREAM frame within 0 .. N: a peer that respects nothing.
AnyFrames ==
  {fr \in [offset : 0 .. N, datalen : 0 .. N, fin : BOOLEAN] :
      fr.offset + fr.datalen <= N}

\* The frames of a peer that sends N bytes and FIN.
ConformingFrames == {fr \in AnyFrames : /\ fr.fin => End(fr) = N
                                        /\ fr.fin \/ fr.datalen > 0}

\* The frames of a peer that sends N bytes and then resets the stream.
ResetFrames == {fr \in AnyFrames : ~fr.fin /\ fr.datalen > 0}

AnyRst == 0 .. N
NoRst == {}
ResetRst == {N}
=============================================================================
