--------------------------- MODULE MCHttpContext ---------------------------
(* A small instance of HttpContext for TLC.                                *)
EXTENDS HttpContext

Message(req, get, code, head, length, size, chunks, ask) ==
  [request |-> req, get |-> get, code |-> code, head |-> head, length |-> length,
   size |-> size, chunks |-> chunks, ask |-> ask]

Get(ask) == Message(TRUE, TRUE, 0, 6, NoLength, 0, None, ask)

MCMessages ==
  {Get(ask) : ask \in {"text", "packet", "chunks", "stream", "flv", "gone"}}
  \cup {Message(TRUE, FALSE, 0, 6, 2, 2, None, "text"),           \* POST with a body
        Message(TRUE, FALSE, 0, 6, NoLength, 0, <<1, 2>>, "gone"), \* POST in chunks
        Message(TRUE, FALSE, 0, 6, NoLength, 9, None, "gone"),     \* POST of a stream
        Message(TRUE, TRUE, 0, 6, BadLength, 0, None, "text"),
        Message(TRUE, TRUE, 0, 12, NoLength, 0, None, "text"),     \* too long a header
        Message(FALSE, FALSE, 200, 6, 3, 3, None, "none"),
        Message(FALSE, FALSE, 404, 6, NoLength, 0, None, "none"),
        Message(FALSE, FALSE, 200, 6, NoLength, 0, <<2>>, "none")}

=============================================================================
