----------------------------- MODULE MCConsole -----------------------------
(***************************************************************************)
(* Console on a grid of two rows and words of eight bits.                  *)
(***************************************************************************)
EXTENDS Console

\* Tokens: a character, a conversion with its argument, a string, a call.
Tok(c, t, arg, str) == [c |-> c, t |-> t, arg |-> arg, str |-> str, at |-> <<0, 0>>]
C(c) == Tok(c, "", 0, <<>>)
F(t, arg) == Tok("%", t, arg, <<>>)
S(t, str) == Tok("%", t, 0, str)
At(row, col) == [C("at") EXCEPT !.at = <<row, col>>]

Call(how, fmt) == [how |-> how, fmt |-> fmt]
Plain == [fb_base |-> TRUE, welcome |-> <<>>, calls |-> <<>>, backspaces |-> 0, line |-> <<>>,
          divide |-> [n |-> 0, d |-> 1], move |-> [dst |-> 1, src |-> 1, len |-> 0, size |-> 1]]
Says(calls) == [Plain EXCEPT !.calls = calls]

\* Every word in every base.
Numbers ==
    {Says(<<Call("printf", <<F("d", v), C("a"), F("u", v), F("x", v), F("n", 0), F("o", v), F("b", v), F("p", v)>>)>>) :
       v \in 0 .. WORD - 1}

\* Two writers, and a backspace typed between their characters.
Together == {[j EXCEPT !.backspaces = 1] : j \in
    {Says(<<Call("printf", <<C("a"), C("NL"), C("BS"), C("HT"), F("q", 0), C("c")>>),
            Call("printf", <<S("s", <<"x", "CR">>), At(0, 2), At(2, 0), C("clear"), S("c", <<"z">>)>>)>>),
     Says(<<Call("pprintf", <<F("d", 255), F("n", 0), F("p", 17)>>),
            Call("printf", <<C("u"), C("BS")>>)>>),
     Says(<<Call("vkprintf", <<C("k"), F("i", 200), F("q", 0), F("n", 0), F("t", 1)>>),
            Call("printf", <<F("%", 0), F("t", 0), F("n", 0)>>)>>)}}

\* kmain's text: it wraps, breaks lines and scrolls.
Welcome == {[Plain EXCEPT !.welcome = w, !.backspaces = 2] :
              w \in {<<"NL", "W", "e", "l", "c", "o", "m", "e", "NL", "NL">>,
                     <<"a", "b", "c", "NL", "d", "e", "f", "g", "h">>}}

\* No framebuffer: calls outside the grid do nothing, the first one inside is the last.
Dark == {[Says(calls) EXCEPT !.fb_base = FALSE, !.welcome = <<"a", "NL">>, !.backspaces = 1] : calls \in
    {<<Call("printf", <<C("a"), At(2, 0), F("x", 18)>>), Call("printf", <<C("b"), At(0, 2)>>)>>,
     <<Call("vkprintf", <<C("k"), F("n", 0)>>), Call("printf", <<C("clear"), C("z")>>)>>}}

\* Arguments of the pure routines.
Division == {[Plain EXCEPT !.divide = [n |-> a, d |-> b]] :
               a \in 0 .. Pow(2, DIV_BITS) - 1, b \in 1 .. Pow(2, DIV_BITS - 1)}
SIZE == 6
Moves == {[Plain EXCEPT !.move = [dst |-> a, src |-> b, len |-> l, size |-> SIZE]] :
            a \in 1 .. 4, b \in 1 .. 4, l \in 0 .. 3}
Lines == {[Plain EXCEPT !.line = l] :
            l \in UNION {[1 .. k -> {"w", " ", "HT"}] : k \in 0 .. 6}}

MCJobs == Numbers \cup Together \cup Welcome \cup Dark \cup Division \cup Moves \cup Lines
=============================================================================
