----------------------------- MODULE MCPrograms -----------------------------
(* Small images and command lines for Programs.  Blocks have two bytes, names *)
(* three; grep's buffer holds four bytes, so lines are cut by both.           *)
EXTENDS Programs

MCDot == <<".">>
MCLs == <<"l">>
MCCat == <<"c">>
MCGrep == <<"g">>
MCExit == <<"e">>
MCTest == <<"t">>
MCRtc == <<"f", "r">>
Long == <<"f", "f", "f">>
MCNames == {MCDot, MCLs, MCCat, MCGrep, MCTest, <<"f">>, MCRtc, Long,
            <<"f", "f">>, <<"f", "f", "f", "f">>, <<>>}

\* The data blocks; 9 is the number of none.
Blocks == <<<<"x", "y">>, <<"nl", "y">>, <<"x", "nl">>, <<"y", "y">>>>

File(label, type, size, blocks, behind) ==
    [name |-> label, type |-> type, size |-> size, blocks |-> blocks, behind |-> behind]
Program(label) == File(label, Regular, 1, <<0>>, 0)
Dir == File(MCDot, Directory, 0, <<>>, 0)

\* An image with these files, an inode each, and unused entries behind them.
Image(files) ==
    [dentries_num |-> Len(files),
     inodes_num |-> Len(files),
     datablocks_num |-> Len(Blocks),
     dentries |-> [d \in DentryIndex |->
         IF d < Len(files)
         THEN [filename |-> files[d + 1].name, filetype |-> files[d + 1].type, inode |-> d]
         ELSE [filename |-> <<>>, filetype |-> Rtc, inode |-> 0]],
     inodes |-> [n \in 0..(Len(files) - 1) |->
         [length |-> files[n + 1].size,
          data_blocks |-> [b \in 0..BlockEntries |->
              IF b < Len(files[n + 1].blocks) THEN files[n + 1].blocks[b + 1]
              ELSE files[n + 1].behind]]],
     data |-> [b \in 0..(Len(Blocks) - 1) |-> [k \in 0..1 |-> Blocks[b + 1][k + 1]]]]

\* The file the commands work on: lines longer and shorter than a block, one as
\* long as grep's buffer, a file that ends on a block boundary with a good and
\* with a bad number behind it, damaged files, an empty one; an image without
\* the file that Control-1 reads.
Texts == {File(<<"f">>, Regular, 5, <<0, 1, 2>>, 0),
          File(<<"f">>, Regular, 6, <<3, 0, 1>>, 0),
          File(<<"f">>, Regular, 4, <<2, 0>>, 9),
          File(<<"f">>, Regular, 3, <<0, 9>>, 0),
          File(<<"f">>, Regular, 3, <<9, 0>>, 0),
          File(<<"f">>, Regular, 0, <<>>, 0)}
LongTest == File(MCTest, Regular, 5, <<0, 1, 3>>, 0)
BadTest == File(MCTest, Regular, 1, <<9>>, 0)
MCImages ==
    {Image(<<Dir, Program(MCLs), Program(MCCat), Program(MCGrep), f, LongTest,
             File(MCRtc, Rtc, 0, <<>>, 0)>>) : f \in Texts}
    \cup
    {Image(<<Dir, Program(MCCat), File(<<"f">>, Regular, 2, <<0>>, 0), BadTest>>)}
    \cup {Image(<<Dir, Program(MCCat), File(<<"f">>, Regular, 3, <<0, 1>>, 0)>>)}
    \cup {Image(<<Dir, Program(MCGrep), File(Long, Regular, 1, <<0>>, 0), Program(MCLs),
                  File(MCTest, Regular, 2, <<0>>, 9)>>)}

\* Lines with and without arguments, programs, files and unknown names; a word
\* longer than a name; a blank that a later, shorter line leaves behind itself.
MCLines == {<<>>, MCExit, MCLs, MCGrep \o <<" ", "y", "x">>,
            MCCat \o <<" ", "f">>, MCCat \o <<" ", ".">>, MCCat \o <<" ">> \o MCRtc, MCCat,
            <<"f">>, <<"c", "f", " ", "f">>, <<"c", "f", "f", "f", "f">>}
=============================================================================
