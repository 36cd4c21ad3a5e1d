-------------------------------- MODULE MCSend --------------------------------
(***************************************************************************)
(* SendPipeline for TLC.                                                   *)
(***************************************************************************)
EXTENDS SendPipeline, TLC

(* Keys and senders are interchangeable, unless a large batch tells the keys *)
(* apart.                                                                   *)
Interchangeable == Permutations(Keys) \cup Permutations(Senders)

Seconds == Keys \X {2}
FirstOfOneKey == {<<CHOOSE k \in Keys : TRUE, 1>>}
===============================================================================
