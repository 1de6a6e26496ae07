---------------------------- MODULE MCSerialLink ----------------------------
(***************************************************************************)
(* Full blocks of 4 bytes and a ring of 6: a packet with the debugger's    *)
(* first data fills a block and ends with it, its second data takes two    *)
(* packets and has a zero; the program's data is a zero or ends with one.  *)
(***************************************************************************)
EXTENDS SerialLink

MCUserData  == {<<0>>, <<1, 0>>}
MCDebugData == {<<1, 1, 1>>, <<1, 1, 0, 5>>}
MCMaxWrites == [user |-> 2, debugger |-> 1]
=============================================================================
