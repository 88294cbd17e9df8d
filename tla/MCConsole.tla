----------------------------- MODULE MCConsole -----------------------------
(* Short messages and a small screen; and the code's own, line by line.    *)
EXTENDS Console

Nothing   == <<>>
Hello     == <<"k">>
Greeting  == <<"w">>
Texts     == {<<"u", "cr", "v">>}
Bye       == <<"nl", "x">>

Session(text, before, keys, bytes, most) ==
    [messages |-> text, before |-> before, keys |-> keys, bytes |-> bytes, calls |-> most]

\* Keys during kernel_main's messages; every key afterwards; a second line after
\* an odd one; and keys between system calls.
FourSessions ==
    {Session(<<"k", "k", "nl">>, 1, {"letter", "enter", "backspace"}, 3, 0),
     Session(<<>>, 0, AllKeys, 4, 0),
     Session(<<>>, 0, {"left_shift", "right_shift", "letter", "enter"}, 6, 0),
     Session(<<>>, 0, {"letter", "backspace", "enter"}, 3, 2)}

\* Of a line, only its end matters here.
Lines(n) == [i \in 1 .. n |-> "nl"]

\* kernel_main prints two lines before initIdt returns, five before it calls
\* keyboard_init and seven after it, and userspace_init one.
TwoLines   == Lines(2)
OneLine    == Lines(1)
JustBoot   == {Session(Lines(12), 5, {}, 0, 1)}
ThirtyThree == {Lines(33)}
=============================================================================
