--------------------------- MODULE MCHttpExchange ---------------------------
(* Small instances of HttpExchange.                                        *)
EXTENDS HttpExchangeReply

Chat(idle, cap, cutoff) ==
  [plane |-> "chat", firstByte |-> 2, cap |-> cap, idle |-> idle, cutoff |-> cutoff]
Listing == [plane |-> "control", firstByte |-> 2, cap |-> 0, idle |-> 1, cutoff |-> 0]

(* The idle budget of 2 is the one a server that is never silent can keep   *)
(* from falling due.                                                        *)
MCRequests ==
  {Chat(1, cap, 0) : cap \in 1 .. 3} \cup {Chat(2, 0, 0), Chat(1, 0, 2), Chat(1, 3, 2), Listing}

Delta(text, error, finish) ==
  [kind |-> "frame", text |-> text, error |-> error, finish |-> finish, choices |-> TRUE]
Envelope == [kind |-> "frame", text |-> "none", error |-> TRUE, finish |-> "none", choices |-> FALSE]

MCFrames ==
  {Delta("blank", FALSE, "none"), Delta("think", FALSE, "none"), Delta("say", FALSE, "none"),
   Delta("none", FALSE, "stop"), Delta("none", TRUE, "none"), Delta("say", TRUE, "error"), 
   Delta("none", FALSE, "error"), Envelope}
=============================================================================
