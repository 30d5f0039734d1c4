----------------------------- MODULE MCMessages -----------------------------
EXTENDS Messages
CONSTANTS a, b, c, client

Call(i, from, to, kind, input, about) ==
    [id |-> <<"call", i>>, from |-> from, to |-> to, kind |-> kind, input |-> input, about |-> about]

\* One identity used for two threads; one reused with another input, and cancelled
\* by its caller and by a stranger.
Shared == { Call(1, a, b, "invoke", "x", <<>>), Call(1, a, c, "invoke", "x", <<>>) }
Reused ==
    { Call(1, a, b, "invoke", "x", <<>>), Call(1, a, b, "invoke", "y", <<>>),
      Call(2, a, b, "cancel", "stop", <<"call", 1>>),
      Call(3, client, b, "cancel", "stop", <<"call", 1>>) }
Both == {Shared, Reused}
OneCall == {{ Call(1, a, b, "invoke", "x", <<>>) }}
=============================================================================
