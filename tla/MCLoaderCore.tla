--------------------------- MODULE MCLoaderCore ---------------------------
(***************************************************************************)
(* Three double words of APP in two pages, chunks of up to two.  Image A   *)
(* has two double words, B three with an all-ones one in the middle; V has *)
(* a vector table no build would have, L is longer than the APP area.      *)
(***************************************************************************)
EXTENDS LoaderCore, TLC

CONSTANTS A, B, V, L, va, vb, x, s1, s2

MCData     == {va, vb, x, Blank}
MCImages   == {A, B, V, L}
MCSize     == (A :> 2) @@ (B :> 3) @@ (V :> 2) @@ (L :> 4)
Seq0(s)    == [d \in 0 .. Len(s) - 1 |-> s[d + 1]]
MCContent  == (A :> Seq0(<<va, x>>)) @@ (B :> Seq0(<<vb, Blank, x>>)) @@
              (V :> Seq0(<<x, x>>)) @@ (L :> Seq0(<<va, x, x, x>>))
MCReset    == (va :> 1) @@ (vb :> 2)
MCPageOf   == Seq0(<<0, 0, 1>>)

\* Delivered blank, with image A, or with the wreck of a cut erase.
MCFactory == {Seq0(<<Blank, Blank, Blank>>), Seq0(<<va, x, Torn>>),
              Seq0(<<Torn, Blank, x>>)}

Plain(op, q, s, f) == [op |-> op, seq |-> q, session |-> s, framed |-> f]
BeginReq(q, s, i, id) == [op |-> "BEGIN", seq |-> q, session |-> s,
                          framed |-> TRUE, img |-> i, identity |-> id]
ProgramReq(q, o, d) == [op |-> "PROGRAM", seq |-> q, session |-> s1,
                        framed |-> TRUE, offset |-> o, data |-> d]

(* The owner of session s1 may send each request under two or three        *)
(* numbers, so in any order, again, or too late; another client tries to   *)
(* open and to abort, and there are queries.                               *)
MCNumbers == {<<"ERASE", 1>>, <<"ERASE", 2>>, <<"ERASE", 5>>,
              <<"VERIFY", 3>>, <<"VERIFY", 4>>,
              <<"ACTIVATE", 5>>, <<"ACTIVATE", 6>>,
              <<"ABORT", 1>>, <<"ABORT", 4>>, <<"ABORT", 6>>}

MCRequests ==
    {Plain(n[1], n[2], s1, TRUE) : n \in MCNumbers}
    \cup {BeginReq(q, s1, i, "ours") : q \in {0, 1}, i \in {A, B, V}}
    \cup {ProgramReq(q, o[1], o[2]) : q \in 2 .. 4,
            o \in {<<0, <<va, x>>>>, <<0, <<vb, Blank>>>>, <<0, <<x, x>>>>,
                   <<1, <<Blank>>>>, <<2, <<x>>>>}}
    \cup {BeginReq(1, s2, A, "ours"), Plain("ABORT", 2, s2, TRUE)}
    \cup {BeginReq(1, s1, A, "uid"), BeginReq(1, s1, A, "family"),
          BeginReq(1, s1, L, "ours"), BeginReq(1, NoSession, A, "ours"),
          ProgramReq(4, 1, <<x, x>>), ProgramReq(4, 0, <<x>>), ProgramReq(4, 0, <<>>),
          Plain("ERASE", 2, s1, FALSE), Plain("UNKNOWN", 1, s1, TRUE),
          Plain("INFO", 0, NoSession, TRUE), Plain("STATUS", 0, NoSession, TRUE),
          Plain("UID", 0, s1, TRUE)}
=============================================================================
