----------------------------- MODULE MCIpsPatch -----------------------------
(* Bytes of two values: a run has at most three of them, an address in an IPS *)
(* file is below 8, one in an IPS32 file below 16.  The records of the other  *)
(* program repeat one byte, two times as the code reads them.                 *)
EXTENDS IpsPatch, TLC

MCFooter == IPS :> <<1, 0, 1>> @@ IPS32 :> <<0, 1, 0, 1>>
MCOriginal == <<0, 0, 0, 1, 0, 0>>
MCForeign == {<<0, 1, 0, 0, 0, 0, 1, 1>> \o MCFooter[IPS],
              <<0, 0, 1, 0, 0, 0, 0, 1, 1>> \o MCFooter[IPS32]}
=============================================================================
