------------------------------ MODULE MCParts -------------------------------
(***************************************************************************)
(* The parts that share no state, side by side: which of them runs is      *)
(* chosen at the start, the others stay as they are.                       *)
(***************************************************************************)
EXTENDS SpmapClient, MCEvtPatch, NetInit, OutgoingRing, MCMsgPatch, Payload, EffTracker

VARIABLE part

\* Parameters of every type: numbers with both halves, a text with the byte of a tag in
\* it, an empty one, a pointer into the game's memory and one outside.
MCArgs == {[tag |-> "i", value |-> <<65535, 65534>>], [tag |-> "i", value |-> <<0, 258>>],
           [tag |-> "f", value |-> <<16256, 0>>], [tag |-> "d", value |-> <<16368, 1, 2, 3>>],
           [tag |-> "s", value |-> <<105, 34>>], [tag |-> "s", value |-> <<>>],
           [tag |-> "b", value |-> <<105, 0, 0>>],
           [tag |-> "p", value |-> <<32768, 4660>>], [tag |-> "p", value |-> <<33152, 0>>]}

PartsInit ==
    /\ part \in {"client", "evtpatch", "netinit", "ring", "msgpatch", "payload", "efftracker"}
    /\ ClientInit /\ EvtInit /\ NetInitInit /\ RingInit /\ MsgInit /\ EffInit
    /\ IF part = "payload" THEN PayloadInit
       ELSE typed = <<>> /\ payload = <<>> /\ at = 0 /\ valid = TRUE /\ params = NoParams
            /\ overrun = FALSE

PartsVars == <<part, clientVars, evtVars, netInitVars, ringVars, msgpatchEntries,
               payloadVars, effVars>>

PartsNext ==
    /\ UNCHANGED part
    /\ \/ /\ part = "client" /\ ClientNext
          /\ UNCHANGED <<evtVars, netInitVars, ringVars,
                      msgpatchEntries, payloadVars, effVars>>
       \/ /\ part = "evtpatch" /\ EvtNext
          /\ UNCHANGED <<clientVars, netInitVars, ringVars,
                      msgpatchEntries, payloadVars, effVars>>
       \/ /\ part = "netinit" /\ NetInitNext
          /\ UNCHANGED <<clientVars, evtVars, ringVars,
                      msgpatchEntries, payloadVars, effVars>>
       \/ /\ part = "ring" /\ RingNext
          /\ UNCHANGED <<clientVars, evtVars, netInitVars,
                      msgpatchEntries, payloadVars, effVars>>
       \/ /\ part = "msgpatch" /\ MsgNext
          /\ UNCHANGED <<clientVars, evtVars, netInitVars,
                      ringVars, payloadVars, effVars>>
       \/ /\ part = "payload" /\ payloadProcess
          /\ UNCHANGED <<clientVars, evtVars, netInitVars,
                      ringVars, msgpatchEntries, effVars>>
       \/ /\ part = "efftracker" /\ EffNext
          /\ UNCHANGED <<clientVars, evtVars, netInitVars,
                      ringVars, msgpatchEntries, payloadVars>>

\* The fair actions of the client are disabled while another part runs.
PartsSpec == PartsInit /\ [][PartsNext]_PartsVars
PartsFairSpec == PartsSpec /\ ClientFairness
=============================================================================
