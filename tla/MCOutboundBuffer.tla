-------------------------- MODULE MCOutboundBuffer --------------------------
(* Model of OutboundBuffer for TLC.                                        *)
EXTENDS OutboundBuffer

(* One slice of 0, 1 or 2 bytes, and several with empty ones among them.   *)
MCCalls == {<<0>>, <<1>>, <<2>>, <<0, 0>>, <<1, 0, 1>>, <<0, 2>>, <<2, 1, 0>>}
=============================================================================
