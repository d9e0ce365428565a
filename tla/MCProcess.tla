----------------------------- MODULE MCProcess -----------------------------
(* Small file system images for the runs of Process. *)
EXTENDS Process

\* Nesting: two programs and one whose block list is damaged; nothing to open.
NestDentries == <<"shell", "counter", "broken">>
NestNames == {"shell", "counter", "broken"}
NestFileType == [n \in NestNames |-> "file"]
NestLength == [n \in NestNames |-> 1]
NestPrograms == {"shell", "counter"}
NestCommands == {"shell", "counter", "broken", "nosuch"}

\* Descriptors: a directory, the clock and a program of one byte.
FdDentries == <<".", "shell", "rtc">>
FdNames == {".", "shell", "rtc"}
FdFileType == [n \in FdNames |-> CASE n = "." -> "directory"
                                   [] n = "rtc" -> "rtc"
                                   [] n = "shell" -> "file"]
FdLength == [n \in FdNames |-> IF n = "shell" THEN 1 ELSE 0]
FdNameLength == [n \in FdNames |-> 1]
FdCommands == {"shell", ".", "rtc", "nosuch", "stdin", "stdout"}
=============================================================================
