----------------------------- MODULE MCProcSelf -----------------------------
(* Names that forge a line, or try to; numbers that fit, saturate and overflow; a
   bound on the length that the longest files pass. *)
EXTENDS ProcSelf

MCNames ==
  {<<>>, <<Lf, Needle>>, <<Lf, Needle, 2>>,
   <<Lf, Needle, Tab, 1, 1>>, <<Byte, Lf, Needle, Space, 1>>,
   <<Lf, Needle, 1, Lf, Needle, 2, 2, 2>>, <<Byte, Byte, Byte, Byte, Byte, Byte, Byte>>}
MCFields == {<<0>>, <<1, 2>>, <<2, 2>>, <<1, 1, 1>>, <<1, 1, 2>>}
=============================================================================
