---------------------------- MODULE MCDispatcher ----------------------------
(* Two clients and two words are enough for two chunks to race, and for    *)
(* one chunk to hold both words.                                           *)
EXTENDS Dispatcher

MCGarbage == {-1, 0, 3}
=============================================================================
