------------------------------ MODULE MCMemory ------------------------------
(***************************************************************************)
(* One-bit bytes and four-bit words, so that every address and every value *)
(* of a word can be tried, with a RAM of eight bytes: half of the address  *)
(* space.  The images have sections that are empty, that overlap, that end *)
(* at or beyond the end of RAM, whose end wraps around, and files that are *)
(* cut off in a header or in data.                                         *)
(***************************************************************************)
EXTENDS Memory

Sec(b, d) == [base |-> b, nbytes |-> Len(d), data |-> d]
Cut(b, n, d) == [base |-> b, nbytes |-> n, data |-> d]
File(s, t) == [sections |-> s, tail |-> t]

MCImages == {
    File(<<>>, 0),
    File(<<Sec(0, <<1, 0, 1, 1>>), Sec(2, <<0, 0, 1>>)>>, 0),
    File(<<Sec(3, <<1, 1, 1>>), Sec(1, <<0, 0, 0>>), Sec(7, <<>>)>>, 0),
    File(<<Sec(0, <<1, 1>>)>>, 3),
    File(<<Sec(0, <<1, 1>>), Cut(4, 3, <<1>>)>>, 0),
    File(<<Sec(5, <<1, 1, 1>>)>>, 0),
    File(<<Sec(6, <<1, 1, 1>>)>>, 0),
    File(<<Sec(0, <<1>>), Sec(14, <<1, 1, 1, 1>>)>>, 0)}
=============================================================================
