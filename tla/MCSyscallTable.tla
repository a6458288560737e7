--------------------------- MODULE MCSyscallTable ---------------------------
(* Kernel images for SyscallTable: text at 8 .. 23, four system calls, a page *)
(* of four units.                                                             *)
EXTENDS SyscallTable

Text == <<8, 24>>

\* Handlers in and out of order, with an empty entry, and with the highest one at
\* the start of a page.
Layouts == {<<10, 12, 14, 20>>, <<18, 10, 23, 14>>, <<9, 21, 17, 0>>}

\* Which section labels a probe resolves: any of them may be missing.
Symbols ==
    {[_stext |-> 0, _text |-> 0, _etext |-> 0, _sinittext |-> 0],
     [_stext |-> 8, _text |-> 0, _etext |-> 0, _sinittext |-> 0],
     [_stext |-> 0, _text |-> 0, _etext |-> 0, _sinittext |-> 24],
     [_stext |-> 0, _text |-> 8, _etext |-> 24, _sinittext |-> 24]}

\* The table lies behind the text or in front of it; the x32 table between text
\* and table or out of sight.
Kernels ==
    {[text |-> Text,
      handler |-> [i \in 0 .. 3 |-> h[i + 1]],
      table |-> t, x32 |-> x, ibt |-> b,
      probed |-> [i \in 0 .. 3 |-> i # np],
      symbol |-> s] :
        h \in Layouts, t \in {3, 28}, x \in {24, 90}, b \in BOOLEAN, np \in {1, 3}, s \in Symbols}

\* One range in front of the text, and one behind the image.
Areas == {{1, 2}, {36, 37, 38, 39}}
=============================================================================
