----------------------------- MODULE MCMsgPatch ------------------------------
(* The game's messages: a file with a gap, an empty one, a name in two files. *)
EXTENDS MsgPatch

Msg(stem, suffix, text) == [name |-> [stem |-> stem, suffix |-> suffix], text |-> text]
MCFiles == << <<Msg(0, "", "no message"), Msg(1, "", "one"), Msg(1, "_ex", "one ex"),
                Msg(1, "_ex_", "one ex more")>>,
              <<>>,
              <<Msg(0, "_ex2", "no message ex2"), Msg(1, "", "other one")>>,
              <<Msg(1, "_ex2", "one ex2")>> >>
MCNoMessage == [stem |-> 0, suffix |-> ""]
=============================================================================
