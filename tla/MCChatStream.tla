---------------------------- MODULE MCChatStream ----------------------------
(***************************************************************************)
(* Small instances of ChatStream.  Generators share nothing, so the second *)
(* chat is one without a project, asks after the first and keeps its       *)
(* client; a behaviour has a failing save or a deleted task, not both.     *)
(***************************************************************************)
EXTENDS ChatStream

CONSTANTS c1, c2

MCBound ==
  /\ chat[c2].pc # "ensure" /\ ~chat[c2].closed
  /\ chat[c1].pc = "idle" => chat[c2].pc = "idle"
  /\ deletes > 0 => faults = 0

MCSpec ==
  /\ Init /\ [][Next /\ MCBound']_vars
  /\ \A c \in Chats : WF_vars(Generates(c) /\ MCBound') /\ WF_vars(Serves(c) /\ MCBound')
=============================================================================
