--------------------------- MODULE MCWebSocketPump ---------------------------
(* Small instances of WebSocketPump.                                       *)
EXTENDS WebSocketPump

Frame(op, fin, len, utf8) == [op |-> op, fin |-> fin, len |-> len, valid |-> TRUE, utf8 |-> utf8]

\* A whole text, a split one whose character is continued or broken, a binary
\* message beyond the limit, control frames and a malformed one.
SampleFrames ==
    {Frame("text", TRUE, 1, "whole"), Frame("text", FALSE, 1, "head"),
     Frame("continuation", FALSE, 1, "whole"), Frame("continuation", TRUE, 1, "tail"),
     Frame("continuation", TRUE, 1, "whole"),
     Frame("binary", TRUE, Limit + 1, "bad"), Frame("ping", TRUE, 0, "whole"),
     Frame("close", TRUE, 0, "whole"),
     [Frame("ping", FALSE, 0, "whole") EXCEPT !.valid = FALSE]}
=============================================================================
