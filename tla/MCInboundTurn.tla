--------------------------- MODULE MCInboundTurn ---------------------------
(* A turn for TLC, with the histories earlier turns can leave behind. *)
EXTENDS InboundTurn

User     == UserMessage(Earlier)
Text     == TextMessage(Earlier)
Calls(g, k)  == CallsMessage(Earlier, g, k)
Answer(g, k) == ToolMessage(Earlier, g, k)

Histories ==
  {<<>>,
   <<User, Text, User, Text>>,
   \* complete groups of calls, the limit reached
   <<User, Calls(1, 2), Answer(1, 2), Answer(1, 1), Text>>,
   \* trimmed between a call and its result
   <<Answer(1, 2), Calls(2, 1), Answer(2, 1), Text>>,
   \* a turn closed while its first ping was sent
   <<User, Text, User, Calls(1, 1)>>,
   \* a turn closed between the first call of a group and the second
   <<User, Calls(1, 2), Answer(1, 2)>>,
   \* the same, spliced in before a message that came meanwhile
   <<User, Calls(1, 1), User>>}
=============================================================================
