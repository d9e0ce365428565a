------------------------------- MODULE MCFish -------------------------------
(* Frames and requests for Fish on a screen of three columns and two rows.  *)
EXTENDS Fish

File(bytes) == [bytes |-> bytes, bad |-> {}, found |-> TRUE]
Damaged(bytes, bad) == [bytes |-> bytes, bad |-> bad, found |-> TRUE]
Missing == [bytes |-> <<>>, bad |-> {}, found |-> FALSE]

\* Lines of different lengths, an empty one, a last one without an end, a line
\* longer than the screen is wide, more than the memory holds, and no line.
Texts == {<<>>, <<"a">>, <<"a", "nl">>, <<" ", "b", "nl", "a", "b">>, <<"nl", "a", " ">>,
          <<"a", "b", "a", "b", "a", "b", "nl", "b">>}
MCFrames ==
    {[f \in F |-> File(IF f = 0 THEN s ELSE t)] : s, t \in Texts}
    \cup {[f \in F |-> IF f = 0 THEN Damaged(<<"a", "b", "nl", "a">>, bad) ELSE File(<<"b">>)] :
              bad \in {{0, 1}, {2, 3}, {3}}}
    \cup {[f \in F |-> IF f = 0 THEN File(<<"a">>) ELSE Missing]}

Add1(l, on, off) == [op |-> "add", location |-> l, on_char |-> "i", off_char |-> "m",
                     on_length |-> on, off_length |-> off]
Rem(l) == [op |-> "remove", location |-> l]
Syn(a, b) == [op |-> "sync", from |-> a, to |-> b]

\* main's own requests; removals at the front, in the middle and at the end of
\* the list; lengths around zero and half a short; location 0, and behind the
\* screen.
MCScripts == {<<Add1(5, 2, 1), Syn(1, 5), Rem(3)>>,
              <<Rem(1), Rem(2), Add1(2, 3, 2), Rem(5)>>,
              <<Add1(4, 0, 2), Add1(3, 13, 14), Syn(3, 4), Rem(4)>>,
              <<Add1(0, 2, 1), Syn(0, 0), Rem(0), Add1(2, 1, 1)>>,
              <<Add1(0, 2, 1), Add1(2, 1, 1)>>,
              <<Add1(6, 2, 2), Add1(1, 2, 3), Syn(1, 9), Rem(1)>>}
=============================================================================
